---- MODULE Spec2Model ----
(***************************************************************************)
(* The exact dynamic-programming solver of Hog: brute_solver.py            *)
(* (_precompute_dice_distributions and solve) together with the rules of   *)
(* the simulator in hog.py that the solver's transition model mirrors.     *)
(*                                                                         *)
(* Python floats are IEEE-754 binary64.  They are modelled exactly: a      *)
(* float is a sign, a 53-bit significand and an exponent, and every        *)
(* operation rounds to nearest, ties to even, as the hardware does.        *)
(* Significands do not fit TLC's 32-bit integers, so they are kept as      *)
(* little-endian sequences of 15-bit limbs.                                *)
(***************************************************************************)
EXTENDS Integers, Sequences, FiniteSets

(***************************************************************************)
(* Natural numbers of arbitrary size: little-endian limbs in 0..Base-1,    *)
(* no leading zero limb, zero is the empty sequence.                       *)
(***************************************************************************)
LimbBits == 15

Base == 2 ^ LimbBits

RECURSIVE BNorm(_)
BNorm(a) ==
    IF a = <<>> THEN a
    ELSE IF a[Len(a)] = 0 THEN BNorm(SubSeq(a, 1, Len(a) - 1))
    ELSE a

BLimb(a, i) == IF i >= 1 /\ i <= Len(a) THEN a[i] ELSE 0

BFromInt(n) ==
    IF n = 0 THEN <<>>
    ELSE IF n < Base THEN <<n>>
    ELSE IF n < Base * Base THEN <<n % Base, n \div Base>>
    ELSE <<n % Base, (n \div Base) % Base, n \div (Base * Base)>>

RECURSIVE BAddC(_, _, _, _, _)
BAddC(a, b, i, c, acc) ==
    IF i > Len(a) /\ i > Len(b)
    THEN IF c > 0 THEN Append(acc, c) ELSE acc
    ELSE LET t == BLimb(a, i) + BLimb(b, i) + c
         IN  BAddC(a, b, i + 1, t \div Base, Append(acc, t % Base))

BAdd(a, b) == BAddC(a, b, 1, 0, <<>>)

\* a - b for a >= b
RECURSIVE BSubC(_, _, _, _, _)
BSubC(a, b, i, c, acc) ==
    IF i > Len(a) THEN acc
    ELSE LET t == a[i] - BLimb(b, i) - c
         IN  IF t < 0 THEN BSubC(a, b, i + 1, 1, Append(acc, t + Base))
             ELSE BSubC(a, b, i + 1, 0, Append(acc, t))

BSub(a, b) == BNorm(BSubC(a, b, 1, 0, <<>>))

\* -1, 0, 1 as a < b, a = b, a > b
RECURSIVE BCmpFrom(_, _, _)
BCmpFrom(a, b, i) ==
    IF i = 0 THEN 0
    ELSE IF a[i] < b[i] THEN -1
    ELSE IF a[i] > b[i] THEN 1
    ELSE BCmpFrom(a, b, i - 1)

BCmp(a, b) ==
    IF Len(a) < Len(b) THEN -1
    ELSE IF Len(a) > Len(b) THEN 1
    ELSE BCmpFrom(a, b, Len(a))

\* a * x for a limb x
RECURSIVE BMulSmallC(_, _, _, _, _)
BMulSmallC(a, x, i, c, acc) ==
    IF i > Len(a)
    THEN IF c > 0 THEN Append(acc, c) ELSE acc
    ELSE LET t == a[i] * x + c
         IN  BMulSmallC(a, x, i + 1, t \div Base, Append(acc, t % Base))

BMulSmall(a, x) == IF x = 0 \/ a = <<>> THEN <<>> ELSE BMulSmallC(a, x, 1, 0, <<>>)

BShiftLimbs(a, q) == IF a = <<>> THEN a ELSE [i \in 1..q |-> 0] \o a

RECURSIVE BMulFrom(_, _, _, _)
BMulFrom(a, b, j, acc) ==
    IF j > Len(b) THEN acc
    ELSE BMulFrom(a, b, j + 1, BAdd(acc, BShiftLimbs(BMulSmall(a, b[j]), j - 1)))

BMul(a, b) == BMulFrom(a, b, 1, <<>>)

\* a * 2^n
BShl(a, n) == BShiftLimbs(BMulSmall(a, 2 ^ (n % LimbBits)), n \div LimbBits)

\* floor(a / 2^n)
BShr(a, n) ==
    LET q == n \div LimbBits
        r == n % LimbBits
        len == Len(a) - q
    IN  IF len <= 0 THEN <<>>
        ELSE BNorm([i \in 1..len |->
                 (a[i + q] \div (2 ^ r))
                 + (BLimb(a, i + q + 1) % (2 ^ r)) * (2 ^ (LimbBits - r))])

RECURSIVE SmallBitLen(_)
SmallBitLen(x) == IF x = 0 THEN 0 ELSE 1 + SmallBitLen(x \div 2)

BBitLen(a) == IF a = <<>> THEN 0 ELSE LimbBits * (Len(a) - 1) + SmallBitLen(a[Len(a)])

\* bit n of a (bit 0 is the lowest)
BBit(a, n) == (BLimb(a, n \div LimbBits + 1) \div (2 ^ (n % LimbBits))) % 2

\* a mod 2^n # 0
BLowNonZero(a, n) ==
    \/ \E i \in 1..(n \div LimbBits) : BLimb(a, i) # 0
    \/ BLimb(a, n \div LimbBits + 1) % (2 ^ (n % LimbBits)) # 0

BIsOdd(a) == a # <<>> /\ a[1] % 2 = 1

(***************************************************************************)
(* binary64: the value of [sg, m, e] is sg * m * 2^e, with m of exactly    *)
(* MantBits bits, or m = <<>> for zero.  Exponents are unbounded: no value *)
(* the solver computes comes near the subnormal or the overflow range.     *)
(***************************************************************************)
MantBits == 53

FZero == [sg |-> 1, m |-> <<>>, e |-> 0]

\* The float nearest to sg * M * 2^e (M a natural number), ties to even.
FRound(sg, M, e) ==
    LET L == BBitLen(M)
    IN  IF L = 0 THEN FZero
        ELSE IF L <= MantBits
        THEN [sg |-> sg, m |-> BShl(M, MantBits - L), e |-> e - (MantBits - L)]
        ELSE LET sh == L - MantBits
                 q == BShr(M, sh)
                 \* the first bit dropped, and whether any lower bit is set
                 guard == BBit(M, sh - 1)
                 sticky == BLowNonZero(M, sh - 1)
                 up == guard = 1 /\ (sticky \/ BIsOdd(q))
                 q1 == IF up THEN BAdd(q, <<1>>) ELSE q
             IN  IF BBitLen(q1) > MantBits
                 THEN [sg |-> sg, m |-> BShr(q1, 1), e |-> e + sh + 1]
                 ELSE [sg |-> sg, m |-> q1, e |-> e + sh]

FNeg(x) == IF x.m = <<>> THEN x ELSE [x EXCEPT !.sg = -x.sg]

FAdd(x, y) ==
    IF x.m = <<>> THEN y
    ELSE IF y.m = <<>> THEN x
    ELSE LET emin == IF x.e < y.e THEN x.e ELSE y.e
             X == BShl(x.m, x.e - emin)
             Y == BShl(y.m, y.e - emin)
         IN  IF x.sg = y.sg THEN FRound(x.sg, BAdd(X, Y), emin)
             ELSE LET c == BCmp(X, Y)
                  IN  IF c = 0 THEN FZero
                      ELSE IF c > 0 THEN FRound(x.sg, BSub(X, Y), emin)
                      ELSE FRound(y.sg, BSub(Y, X), emin)

FSub(x, y) == FAdd(x, FNeg(y))

FMul(x, y) ==
    IF x.m = <<>> \/ y.m = <<>> THEN FZero
    ELSE FRound(x.sg * y.sg, BMul(x.m, y.m), x.e + y.e)

\* -1, 0, 1 as x < y, x = y, x > y
FCmp(x, y) ==
    IF x.m = <<>> THEN (IF y.m = <<>> THEN 0 ELSE -y.sg)
    ELSE IF y.m = <<>> THEN x.sg
    ELSE IF x.sg # y.sg THEN x.sg
    ELSE IF x.e # y.e THEN (IF x.e > y.e THEN x.sg ELSE -x.sg)
    ELSE x.sg * BCmp(x.m, y.m)

FLess(x, y) == FCmp(x, y) < 0

FLeq(x, y) == FCmp(x, y) <= 0

FFromInt(n) == FRound(1, BFromInt(n), 0)

FOne == FFromInt(1)

\* LimbBits more bits of the quotient r / b (r < b): <<limb, remainder>>
RECURSIVE DivChunk(_, _, _, _)
DivChunk(r, b, n, acc) ==
    IF n = 0 THEN <<acc, r>>
    ELSE IF 2 * r >= b THEN DivChunk(2 * r - b, b, n - 1, 2 * acc + 1)
    ELSE DivChunk(2 * r, b, n - 1, 2 * acc)

\* floor((r / b) * Base^n) with its remainder: <<limbs, remainder>>
RECURSIVE DivLimbs(_, _, _, _)
DivLimbs(r, b, n, acc) ==
    IF n = 0 THEN <<acc, r>>
    ELSE LET c == DivChunk(r, b, LimbBits, 0)
         IN  DivLimbs(c[2], b, n - 1, <<c[1]>> \o acc)

QuotLimbs == 7

\* Python's true division a / b of integers 0 <= a, 0 < b: correctly rounded.
FDivInt(a, b) ==
    LET ip == a \div b
        d == DivLimbs(a % b, b, QuotLimbs, <<>>)
        whole == BAdd(BShiftLimbs(BFromInt(ip), QuotLimbs), BNorm(d[1]))
        sticky == IF d[2] = 0 THEN <<>> ELSE <<1>>
    IN  FRound(1, BAdd(BShl(whole, 1), sticky), -(QuotLimbs * LimbBits + 1))

(***************************************************************************)
(* Program constants and the bound of the model.                           *)
(***************************************************************************)
\* Side of the two tables and the goal score: 100 in the source
\* ([[0.0] * 100 for _ in range(100)], the tests >= 100, total - 99).
N == 13

\* for total in range(1998, -1, -1)
TopTotal == 1998

\* if o < 0 or o >= 1000: continue
OLimit == 1000

\* for num_rolls in range(1, 11) and for num_rolls in range(11)
MaxRolls == 10

\* for num_sides in (4, 6)
Sides == <<4, 6>>

Max(a, b) == IF a >= b THEN a ELSE b

Min(a, b) == IF a <= b THEN a ELSE b

Scores == 0..(N - 1)

States == Scores \X Scores

(***************************************************************************)
(* The loops below are recursions over an accumulator.  Each begins with a *)
(* test of the accumulator that is never true: it makes TLC compute the    *)
(* accumulator at every iteration, as the loop does, and not as one nested *)
(* expression at the end.                                                  *)
(*                                                                         *)
(* A Python dict is a sequence of <<key, value>> pairs in insertion order, *)
(* the order in which .items() yields them.                                *)
(***************************************************************************)
DictHas(dict, key) == \E i \in 1..Len(dict) : dict[i][1] = key

DictIndex(dict, key) == CHOOSE i \in 1..Len(dict) : dict[i][1] = key

\* dict.get(key, default)
DictGet(dict, key, default) ==
    IF DictHas(dict, key) THEN dict[DictIndex(dict, key)][2] ELSE default

\* dict[key] = value
DictSet(dict, key, value) ==
    IF DictHas(dict, key)
    THEN [dict EXCEPT ![DictIndex(dict, key)] = <<key, value>>]
    ELSE Append(dict, <<key, value>>)

DictKeys(dict) == {dict[i][1] : i \in 1..Len(dict)}

(***************************************************************************)
(* hog.py: the rules of one turn.                                          *)
(***************************************************************************)
\* the ones digit alone
FreeBaconOnes(opponent_score) == (opponent_score % 10) + 1

\* take_turn(0, opponent_score): Free bacon
FreeBacon(opponent_score) == Max(opponent_score % 10, opponent_score \div 10) + 1

\* select_dice: the number of sides of the dice it returns
select_dice(score, opponent_score) ==
    IF (score + opponent_score) % 7 = 0 THEN 4 ELSE 6

(***************************************************************************)
(* brute_solver.py, solve(): the evaluation of one state.                  *)
(***************************************************************************)
\* The precedence slip of simple_strategy: s + o % 7
NumSidesPrecedence(s, o) == IF s + (o % 7) = 0 THEN 4 ELSE 6

\* num_sides = 4 if (s + o) % 7 == 0 else 6
NumSides(s, o) == IF (s + o) % 7 = 0 THEN 4 ELSE 6

\* the larger digit alone
BaconPointsNoOne(o) == Max(o % 10, o \div 10)

\* bacon_points = max(o % 10, o // 10) + 1
BaconPoints(o) == Max(o % 10, o \div 10) + 1

\* the first half of the condition alone
SwapCondOneWay(score, opp) == score = 2 * opp

\* if score == 2 * opp or opp == 2 * score
SwapCond(score, opp) == score = 2 * opp \/ opp = 2 * score

\* The pair <<score, opp>> after the gain: exchanged when SwapCond holds.
Swapped(score, opp) == IF SwapCond(score, opp) THEN <<opp, score>> ELSE <<score, opp>>

\* The lookup made without the test of the opponent's score
ReadOfNoOppTest(s, o, points) ==
    LET p == Swapped(s + points, o)
    IN  IF p[1] >= N THEN <<>> ELSE <<p[2], p[1]>>

\* The lookup with the mover's score as the row
ReadOfMoverFirst(s, o, points) ==
    LET p == Swapped(s + points, o)
    IN  IF p[1] >= N THEN <<>>
        ELSE IF p[2] >= N THEN <<>>
        ELSE <<p[1], p[2]>>

\* The table entry read for a turn worth points, <<row, column>>: the
\* subscripts of win_prob[opp][score], or <<>> when the turn ends the game
\* and nothing is read.
ReadOf(s, o, points) ==
    LET p == Swapped(s + points, o)
    IN  IF p[1] >= N THEN <<>>
        ELSE IF p[2] >= N THEN <<>>
        ELSE <<p[2], p[1]>>

\* Free Bacon: the value of num_rolls = 0
BaconValue(wp, s, o) ==
    LET p == Swapped(s + BaconPoints(o), o)
        r == ReadOf(s, o, BaconPoints(o))
    IN  IF r # <<>> THEN FSub(FOne, wp[r[1]][r[2]])
        ELSE IF p[1] >= N THEN FOne
        ELSE FZero

\* One iteration of: for points, prob in dice_dist[...].items()
OutcomeAdd(wp, s, o, points, prob, winrate) ==
    LET p == Swapped(s + points, o)
        r == ReadOf(s, o, points)
    IN  IF r # <<>> THEN FAdd(winrate, FMul(prob, FSub(FOne, wp[r[1]][r[2]])))
        ELSE IF p[1] >= N THEN FAdd(winrate, prob)
        ELSE winrate

RECURSIVE DiceValueFrom(_, _, _, _, _, _)
DiceValueFrom(wp, s, o, items, i, winrate) ==
    IF winrate.sg = 0 \/ i > Len(items) THEN winrate
    ELSE DiceValueFrom(wp, s, o, items, i + 1,
                       OutcomeAdd(wp, s, o, items[i][1], items[i][2], winrate))

\* Roll dice: the value of num_rolls >= 1
DiceValue(wp, dist, s, o, num_rolls) ==
    DiceValueFrom(wp, s, o, dist[<<NumSides(s, o), num_rolls>>], 1, FZero)

\* winrate of one action
ActionValue(wp, dist, s, o, num_rolls) ==
    IF num_rolls = 0 THEN BaconValue(wp, s, o)
    ELSE DiceValue(wp, dist, s, o, num_rolls)

\* if winrate >= best_wr
BetterOrEqual(winrate, best_wr) == FLeq(best_wr, winrate)

\* if winrate > best_wr
Better(winrate, best_wr) == FLess(best_wr, winrate)

\* for num_rolls in range(11): ... ; yields [wr, roll]
RECURSIVE BestFrom(_, _, _, _, _, _)
BestFrom(wp, dist, s, o, num_rolls, best) ==
    IF best.roll < 0 \/ num_rolls > MaxRolls THEN best
    ELSE LET winrate == ActionValue(wp, dist, s, o, num_rolls)
         IN  BestFrom(wp, dist, s, o, num_rolls + 1,
                      IF Better(winrate, best.wr)
                      THEN [wr |-> winrate, roll |-> num_rolls]
                      ELSE best)

\* The loop started at num_rolls = 1: the free action is never tried
EvaluateDiceOnly(wp, dist, s, o) ==
    BestFrom(wp, dist, s, o, 1, [wr |-> FNeg(FOne), roll |-> 0])

\* best_wr = -1.0, best_roll = 0, then the loop over the 11 actions
Evaluate(wp, dist, s, o) ==
    BestFrom(wp, dist, s, o, 0, [wr |-> FNeg(FOne), roll |-> 0])

\* Every table entry the evaluation of (s, o) reads.
ReadsOf(dist, s, o) ==
    ({ReadOf(s, o, BaconPoints(o))}
      \cup UNION {{ReadOf(s, o, dist[<<NumSides(s, o), k>>][i][1]) :
                      i \in 1..Len(dist[<<NumSides(s, o), k>>])} : k \in 1..MaxRolls})
    \ {<<>>}

RangeHi(t) == Min(N, t + 1)

\* max(0, total - 98)
RangeLoOffByOne(t) == Max(0, t - (N - 2))

\* range(max(0, total - 99), min(100, total + 1))
RangeLo(t) == Max(0, t - (N - 1))

(***************************************************************************)
(* brute_solver.py, _precompute_dice_distributions().                      *)
(***************************************************************************)
\* new_ways[s] = count: the count stored, not added
RECURSIVE AddFacesOverwrite(_, _, _, _, _)
AddFacesOverwrite(new_ways, prev_sum, count, face, d) ==
    IF Len(new_ways) < 0 \/ face > d THEN new_ways
    ELSE AddFacesOverwrite(DictSet(new_ways, prev_sum + face, count),
                           prev_sum, count, face + 1, d)

\* for face in range(2, d + 1): new_ways[s] = new_ways.get(s, 0) + count
RECURSIVE AddFaces(_, _, _, _, _)
AddFaces(new_ways, prev_sum, count, face, d) ==
    IF Len(new_ways) < 0 \/ face > d THEN new_ways
    ELSE AddFaces(DictSet(new_ways, prev_sum + face,
                          DictGet(new_ways, prev_sum + face, 0) + count),
                  prev_sum, count, face + 1, d)

\* for prev_sum, count in ways.items(): ...
RECURSIVE ConvolveFrom(_, _, _, _)
ConvolveFrom(prev_ways, i, d, new_ways) ==
    IF Len(new_ways) < 0 \/ i > Len(prev_ways) THEN new_ways
    ELSE ConvolveFrom(prev_ways, i + 1, d,
                      AddFaces(new_ways, prev_ways[i][1], prev_ways[i][2], 2, d))

\* for face in range(1, d + 1): the face 1 counted among the sums
RECURSIVE ConvolveAllFacesFrom(_, _, _, _)
ConvolveAllFacesFrom(prev_ways, i, d, new_ways) ==
    IF Len(new_ways) < 0 \/ i > Len(prev_ways) THEN new_ways
    ELSE ConvolveAllFacesFrom(prev_ways, i + 1, d,
                              AddFaces(new_ways, prev_ways[i][1], prev_ways[i][2], 1, d))

ConvolveAllFaces(prev_ways, d) == ConvolveAllFacesFrom(prev_ways, 1, d, <<>>)

\* One iteration of: for dice in range(k)
Convolve(prev_ways, d) == ConvolveFrom(prev_ways, 1, d, <<>>)

\* Pig Out stored as a turn score of 0: outcomes[0] = pig_prob
PigOutcomesZero(d, k) ==
    LET pig_prob == FDivInt(d ^ k - (d - 1) ^ k, d ^ k)
    IN  IF FLess(FZero, pig_prob) THEN <<<<0, pig_prob>>>> ELSE <<>>

\* Pig Out left out of the distribution
PigOutcomesOmitted(d, k) == <<>>

\* if pig_prob > 0: outcomes[1] = pig_prob
PigOutcomes(d, k) ==
    LET pig_prob == FDivInt(d ^ k - (d - 1) ^ k, d ^ k)
    IN  IF FLess(FZero, pig_prob) THEN <<<<1, pig_prob>>>> ELSE <<>>

\* for outcome, count in ways.items(): outcomes[outcome] = count / total
RECURSIVE StoreWays(_, _, _, _)
StoreWays(outcomes, ways, i, total) ==
    IF Len(outcomes) < 0 \/ i > Len(ways) THEN outcomes
    ELSE StoreWays(DictSet(outcomes, ways[i][1], FDivInt(ways[i][2], total)),
                   ways, i + 1, total)

(***************************************************************************)
(* The state of one call of solve().                                       *)
(***************************************************************************)
VARIABLES
    pc,           \* "key", "conv", "alloc", "sweep", "error", "done"
    sides_i,      \* position in: for num_sides in (4, 6)
    num_rolls,    \* for num_rolls in range(1, 11)
    dice,         \* for dice in range(k)
    ways,         \* the dict ways
    outcomes,     \* the dict outcomes
    dice_dist,    \* the dict distributions, dice_dist in solve()
    total,        \* for total in range(1998, -1, -1)
    s_next,       \* the next s of: for s in range(...)
    win_prob,     \* win_prob[s][o]
    best_action,  \* best_action[s][o]
    way_counts,   \* history: the integer counts behind each stored distribution
    writes,       \* history: how often each table entry was assigned
    skipped,      \* history: how often the guard on o took its continue
    bad_reads,    \* history: reads of entries the sweep had not written yet
    cur,          \* history: the state evaluated last, with its dice and reads
    pending,      \* level-parallel schedule only: evaluations not yet stored
    tables_id,    \* identity of the list objects win_prob and best_action name
    heap,         \* the table objects made so far, by identity: what they hold
                  \*   and which calls of solve() have read or written them
    call,         \* which call of solve() is running: 1 or 2
    returned,     \* what the first call returned, once it has
    io_pc,        \* save_csv / load_csv: "off", "save", "save_rows", "saved",
                  \*   "load_rows", "loaded", "raised"
    given,        \* the tables passed to save_csv
    file,         \* the lines of the CSV file
    line_no,      \* save_csv: rows written; load_csv: the line read next
    fieldnames,   \* csv.DictReader: the fields of the header line
    ld_win_prob,  \* load_csv: its local win_prob
    ld_best_action, \* load_csv: its local best_action
    loaded,       \* what load_csv gave its caller: tables, or an exception
    strat_table,  \* make_optimal_strategy: the best_action its strategy closes over
    answer,       \* the last call of that strategy: arguments, result or exception
    test_dice,    \* hog.py: the outcomes the dice passed to roll_dice gives, in turn
    dice_pos,     \* the place in test_dice of the outcome the next dice() gives
    rd_pc,        \* roll_dice: "idle" between calls, "loop" inside one
    rd_num_rolls, \* roll_dice: its argument num_rolls
    rd_i,         \* roll_dice: how many turns of its loop are done
    dice_list,    \* roll_dice: the outcomes of this call so far
    dice_calls,   \* how many times this call of roll_dice has called dice()
    rolls,        \* what the calls of roll_dice so far returned, in order
    strategies,   \* play: <<strategy0, strategy1>>, each the name of a strategy
    who,          \* play: the player to move, 0 or 1
    score0,       \* play: the score of Player 0
    score1,       \* play: the score of Player 1
    turns,        \* how many times the body of play's loop has run
    pl_pc,        \* play: "off", "loop", "returned" or "error"
    pl_err,       \* the assertion that failed inside play, or ""
    won           \* winner: the player it returned, or -1 before it returns

vars == <<pc, sides_i, num_rolls, dice, ways, outcomes, dice_dist, total, s_next,
          win_prob, best_action, way_counts, writes, skipped, bad_reads, cur, pending,
          tables_id, heap, call, returned,
          io_pc, given, file, line_no, fieldnames, ld_win_prob, ld_best_action, loaded,
          strat_table, answer,
          test_dice, dice_pos, rd_pc, rd_num_rolls, rd_i, dice_list, dice_calls, rolls,
          strategies, who, score0, score1, turns, pl_pc, pl_err, won>>

distVars == <<sides_i, num_rolls, dice, ways, outcomes, dice_dist, way_counts>>

sweepVars == <<total, s_next, win_prob, best_action, writes, skipped, bad_reads, cur,
               pending, tables_id, heap>>

csvVars == <<io_pc, given, file, line_no, fieldnames, ld_win_prob, ld_best_action,
             loaded>>

stratVars == <<strat_table, answer>>

playVars == <<strategies, who, score0, score1, turns, pl_pc, pl_err, won>>

rollVars == <<test_dice, dice_pos, rd_pc, rd_num_rolls, rd_i, dice_list, dice_calls, rolls>>

\* What is outside one call of solve().
restVars == <<call, returned, csvVars, stratVars, rollVars, playVars>>

solveVars == <<pc, distVars, sweepVars, call, returned>>

NoTables == [win_prob |-> <<>>, best_action |-> <<>>]

NoResult == [kind |-> "none"]

NoAnswer == [asked |-> <<>>, err |-> "", val |-> 0]

\* play has not been called.
PlayOff ==
    /\ strategies = <<>>
    /\ who = 0
    /\ score0 = 0
    /\ score1 = 0
    /\ turns = 0
    /\ pl_pc = "off"
    /\ pl_err = ""
    /\ won = -1

\* roll_dice has not been called and no dice has been made.
RollOff ==
    /\ test_dice = <<>>
    /\ dice_pos = 1
    /\ rd_pc = "idle"
    /\ rd_num_rolls = 0
    /\ rd_i = 0
    /\ dice_list = <<>>
    /\ dice_calls = 0
    /\ rolls = <<>>

\* No strategy has been made.
StrategyOff ==
    /\ strat_table = <<>>
    /\ answer = NoAnswer

NoReturn == [id |-> 0, win_prob |-> <<>>, best_action |-> <<>>]

NoState == [s |-> -1, o |-> -1, sides |-> 0, reads |-> {}]

\* No CSV file is being written or read.
CsvOff ==
    /\ io_pc = "off"
    /\ given = NoTables
    /\ file = <<>>
    /\ line_no = 0
    /\ fieldnames = <<>>
    /\ ld_win_prob = <<>>
    /\ ld_best_action = <<>>
    /\ loaded = NoResult

Init ==
    /\ CsvOff
    /\ StrategyOff
    /\ RollOff
    /\ PlayOff
    /\ pc = "key"
    /\ sides_i = 1
    /\ num_rolls = 1
    /\ dice = 0
    /\ ways = <<>>
    /\ outcomes = <<>>
    /\ dice_dist = <<>>
    /\ way_counts = <<>>
    /\ total = TopTotal
    /\ s_next = 0
    /\ win_prob = <<>>
    /\ best_action = <<>>
    /\ writes = [p \in States |-> 0]
    /\ skipped = 0
    /\ bad_reads = {}
    /\ cur = NoState
    /\ pending = {}
    /\ tables_id = 0
    /\ heap = <<>>
    /\ call = 1
    /\ returned = NoReturn

\* Lines 22-33: total, the Pig Out entry, ways = {0: 1}
BeginKey ==
    /\ pc = "key"
    /\ outcomes' = PigOutcomes(Sides[sides_i], num_rolls)
    /\ ways' = <<<<0, 1>>>>
    /\ dice' = 0
    /\ pc' = "conv"
    /\ UNCHANGED <<sides_i, num_rolls, dice_dist, way_counts>>
    /\ UNCHANGED sweepVars
    /\ UNCHANGED restVars

\* Lines 34-40: one die more
ConvolveDie ==
    /\ pc = "conv"
    /\ dice < num_rolls
    /\ ways' = Convolve(ways, Sides[sides_i])
    /\ dice' = dice + 1
    /\ UNCHANGED <<pc, sides_i, num_rolls, outcomes, dice_dist, way_counts>>
    /\ UNCHANGED sweepVars
    /\ UNCHANGED restVars

\* Lines 42-45, and the step of the two for loops (line 46 after the last key)
StoreKey ==
    /\ pc = "conv"
    /\ dice = num_rolls
    /\ \E d \in {Sides[sides_i]}, k \in {num_rolls} :
          \E full \in {StoreWays(outcomes, ways, 1, d ^ k)} :
              /\ outcomes' = full
              /\ dice_dist' = DictSet(dice_dist, <<d, k>>, full)
              /\ way_counts' = DictSet(way_counts, <<d, k>>,
                                       [bust |-> d ^ k - (d - 1) ^ k, ways |-> ways])
    /\ IF num_rolls < MaxRolls
       THEN /\ num_rolls' = num_rolls + 1
            /\ pc' = "key"
            /\ UNCHANGED sides_i
       ELSE IF sides_i < Len(Sides)
       THEN /\ num_rolls' = 1
            /\ sides_i' = sides_i + 1
            /\ pc' = "key"
       ELSE /\ pc' = "alloc"
            /\ UNCHANGED <<num_rolls, sides_i>>
    /\ UNCHANGED <<dice, ways>>
    /\ UNCHANGED sweepVars
    /\ UNCHANGED restVars

\* dice_dist as solve() indexes it: by key
DistOf(dict) == [key \in DictKeys(dict) |-> DictGet(dict, key, <<>>)]

\* A use of the names win_prob and best_action by the running call: a read
\* (lines 87, 100) or an assignment (lines 62-63, 106-107) reaches the list
\* objects those names refer to, whoever else holds them.
StoreIn(objects, id, by, wp, ba) ==
    [x \in DOMAIN objects \cup {id} |->
        IF x = id
        THEN [win_prob |-> wp, best_action |-> ba,
              used_by |-> IF id \in DOMAIN objects
                          THEN objects[id].used_by \cup {by} ELSE {by}]
        ELSE objects[x]]

\* The tables of an earlier call taken again, as a module-level pair would be
SameTables(id) == IF id = 0 THEN 1 ELSE id

\* [[0.0] * 100 for _ in range(100)]: list objects no earlier call has seen
NewTables(id) == id + 1

\* Lines 62-65: the two tables, and the first total
AllocTables ==
    /\ pc = "alloc"
    /\ win_prob' = [s \in Scores |-> [o \in Scores |-> FZero]]
    /\ best_action' = [s \in Scores |-> [o \in Scores |-> 0]]
    /\ total' = TopTotal
    /\ s_next' = RangeLo(TopTotal)
    /\ tables_id' = NewTables(tables_id)
    /\ heap' = StoreIn(heap, tables_id', call, win_prob', best_action')
    /\ pc' = "sweep"
    /\ UNCHANGED <<writes, skipped, bad_reads, cur, pending>>
    /\ UNCHANGED distVars
    /\ UNCHANGED restVars

\* if o < 0 or o >= 10: the limit two digits short
SkipsFromTen(o) == o < 0 \/ o >= OLimit \div 100

\* if o < 0 or o >= 1000
Skips(o) == o < 0 \/ o >= OLimit

\* Lines 67-107: the body of the inner loop for one s.  (The values used in
\* several conjuncts are bound by \E over a one-element set, which TLC
\* computes once.)
SweepState ==
    /\ pc = "sweep"
    /\ s_next < RangeHi(total)
    /\ \E s \in {s_next}, o \in {total - s_next}, dist \in {DistOf(dice_dist)} :
          IF Skips(o)
          THEN /\ skipped' = skipped + 1
               /\ UNCHANGED <<win_prob, best_action, writes, bad_reads, cur, pc, heap>>
          ELSE IF \E k \in 1..MaxRolls : <<NumSides(s, o), k>> \notin DOMAIN dist
          THEN \* KeyError
               /\ pc' = "error"
               /\ UNCHANGED <<win_prob, best_action, writes, bad_reads, cur, skipped,
                              heap>>
          ELSE \E reads \in {ReadsOf(dist, s, o)} :
               IF ~(reads \subseteq States) \/ <<s, o>> \notin States
               THEN \* IndexError
                    /\ pc' = "error"
                    /\ cur' = [s |-> s, o |-> o, sides |-> NumSides(s, o),
                               reads |-> reads]
                    /\ UNCHANGED <<win_prob, best_action, writes, bad_reads, skipped,
                                   heap>>
               ELSE \E best \in {Evaluate(win_prob, dist, s, o)} :
                    /\ win_prob' = [win_prob EXCEPT ![s][o] = best.wr]
                    /\ best_action' = [best_action EXCEPT ![s][o] = best.roll]
                    /\ heap' = StoreIn(heap, tables_id, call, win_prob', best_action')
                    /\ writes' = [writes EXCEPT ![<<s, o>>] = @ + 1]
                    /\ bad_reads' = bad_reads \cup
                           {<<<<s, o>>, r>> : r \in {x \in reads : writes[x] = 0}}
                    /\ cur' = [s |-> s, o |-> o, sides |-> NumSides(s, o),
                               reads |-> reads]
                    /\ UNCHANGED <<skipped, pc>>
    /\ s_next' = s_next + 1
    /\ UNCHANGED <<total, pending>>
    /\ UNCHANGED distVars
    /\ UNCHANGED <<tables_id>>
    /\ UNCHANGED restVars

\* Line 65: the next total, once the inner range is exhausted
NextTotal ==
    /\ pc = "sweep"
    /\ s_next >= RangeHi(total)
    /\ total > 0
    /\ total' = total - 1
    /\ s_next' = RangeLo(total - 1)
    /\ UNCHANGED <<pc, win_prob, best_action, writes, skipped, bad_reads, cur, pending>>
    /\ UNCHANGED distVars
    /\ UNCHANGED <<tables_id, heap>>
    /\ UNCHANGED restVars

\* Line 109: return win_prob, best_action
Return ==
    /\ pc = "sweep"
    /\ s_next >= RangeHi(total)
    /\ total = 0
    /\ pc' = "done"
    /\ UNCHANGED <<total, s_next, win_prob, best_action, writes, skipped, bad_reads, cur,
                   pending>>
    /\ UNCHANGED distVars
    /\ UNCHANGED <<tables_id, heap>>
    /\ UNCHANGED restVars

Next ==
    \/ BeginKey
    \/ ConvolveDie
    \/ StoreKey
    \/ AllocTables
    \/ SweepState
    \/ NextTotal
    \/ Return

Spec == Init /\ [][Next]_vars

(***************************************************************************)
(* Two calls of solve(), one after the other.  The caller holds the list   *)
(* objects the first call returned (heap keeps them by identity, returned  *)
(* what they held at the return).  The second call begins with lines       *)
(* 19-21 as the first did.  Every other name of solve() and                *)
(* _precompute_dice_distributions() is unbound in the new call; the model  *)
(* leaves in them what the first call left, so that a use of a name before *)
(* the call has assigned it, and a store into the objects of the first     *)
(* call, would show in the tables.                                         *)
(***************************************************************************)
\* The caller keeps the pair of line 109 and calls solve() again.
CallAgain ==
    /\ pc = "done"
    /\ call = 1
    /\ returned' = [id |-> tables_id, win_prob |-> win_prob,
                    best_action |-> best_action]
    /\ call' = 2
    /\ pc' = "key"
    /\ dice_dist' = <<>>
    /\ sides_i' = 1
    /\ num_rolls' = 1
    /\ way_counts' = <<>>
    /\ writes' = [p \in States |-> 0]
    /\ skipped' = 0
    /\ bad_reads' = {}
    /\ cur' = NoState
    /\ UNCHANGED <<dice, ways, outcomes, total, s_next, win_prob, best_action>>
    /\ UNCHANGED <<pending, tables_id, heap>>
    /\ UNCHANGED csvVars
    /\ UNCHANGED stratVars
    /\ UNCHANGED rollVars
    /\ UNCHANGED playVars

NextTwice ==
    \/ Next
    \/ CallAgain

SpecTwice == Init /\ [][NextTwice]_vars

(***************************************************************************)
(* The level-parallel schedule of the same sweep: within a level the       *)
(* states are evaluated in any order and interleaving, each evaluation     *)
(* (lines 71-104) separate from the assignment of its result (lines        *)
(* 106-107), and a level begins only when the level above is complete.     *)
(* It covers the ParLevels highest levels.                                 *)
(***************************************************************************)
ParLevels == 4

ParFloor == 2 * N - 1 - ParLevels

LevelStates(t) == {<<s, t - s>> : s \in RangeLo(t)..(RangeHi(t) - 1)}

\* Lines 71-104 for one state of the current level, on the tables as they are
ParBegin ==
    /\ pc = "sweep"
    /\ \E p \in LevelStates(total) :
          /\ writes[p] = 0
          /\ \A r \in pending : <<r.s, r.o>> # p
          /\ \E dist \in {DistOf(dice_dist)} :
                \E reads \in {ReadsOf(dist, p[1], p[2])} :
                   IF ~(reads \subseteq States) \/ p \notin States
                   THEN /\ pc' = "error"
                        /\ UNCHANGED pending
                   ELSE \E best \in {Evaluate(win_prob, dist, p[1], p[2])} :
                           /\ pending' = pending \cup
                                 {[s |-> p[1], o |-> p[2], wr |-> best.wr,
                                   roll |-> best.roll, reads |-> reads]}
                           /\ UNCHANGED pc
    /\ heap' = StoreIn(heap, tables_id, call, win_prob, best_action)
    /\ UNCHANGED <<total, s_next, win_prob, best_action, writes, skipped, bad_reads, cur>>
    /\ UNCHANGED distVars
    /\ UNCHANGED <<tables_id>>
    /\ UNCHANGED restVars

\* Lines 106-107 for one finished evaluation
ParCommit ==
    /\ pc = "sweep"
    /\ \E r \in pending :
          /\ win_prob' = [win_prob EXCEPT ![r.s][r.o] = r.wr]
          /\ best_action' = [best_action EXCEPT ![r.s][r.o] = r.roll]
          /\ writes' = [writes EXCEPT ![<<r.s, r.o>>] = @ + 1]
          /\ pending' = pending \ {r}
    /\ heap' = StoreIn(heap, tables_id, call, win_prob', best_action')
    /\ UNCHANGED <<pc, total, s_next, skipped, bad_reads, cur>>
    /\ UNCHANGED distVars
    /\ UNCHANGED <<tables_id>>
    /\ UNCHANGED restVars

LevelComplete ==
    /\ pending = {}
    /\ \A p \in LevelStates(total) : writes[p] >= 1

\* The barrier, then line 65: the next total
ParBarrier ==
    /\ pc = "sweep"
    /\ LevelComplete
    /\ total > ParFloor
    /\ total' = total - 1
    /\ UNCHANGED <<pc, s_next, win_prob, best_action, writes, skipped, bad_reads, cur,
                   pending>>
    /\ UNCHANGED distVars
    /\ UNCHANGED <<tables_id, heap>>
    /\ UNCHANGED restVars

ParReturn ==
    /\ pc = "sweep"
    /\ LevelComplete
    /\ total = ParFloor
    /\ pc' = "done"
    /\ UNCHANGED <<total, s_next, win_prob, best_action, writes, skipped, bad_reads, cur,
                   pending>>
    /\ UNCHANGED distVars
    /\ UNCHANGED <<tables_id, heap>>
    /\ UNCHANGED restVars

NextPar ==
    \/ BeginKey
    \/ ConvolveDie
    \/ StoreKey
    \/ AllocTables
    \/ ParBegin
    \/ ParCommit
    \/ ParBarrier
    \/ ParReturn

SpecPar == Init /\ [][NextPar]_vars

\* The sequential sweep of solve() as a function: lines 66-107 for the s of
\* one total in the order of the loop, then the totals from t down to floor.
RECURSIVE SeqLevelFrom(_, _, _, _)
SeqLevelFrom(tabs, dist, t, s) ==
    IF Len(tabs) < 0 \/ s >= RangeHi(t) THEN tabs
    ELSE SeqLevelFrom(
             CHOOSE next \in
                 {<<[tabs[1] EXCEPT ![s][t - s] = best.wr],
                    [tabs[2] EXCEPT ![s][t - s] = best.roll]>> :
                      best \in {Evaluate(tabs[1], dist, s, t - s)}} : TRUE,
             dist, t, s + 1)

RECURSIVE SeqSweepFrom(_, _, _, _)
SeqSweepFrom(tabs, dist, t, floor) ==
    IF Len(tabs) < 0 \/ t < floor THEN tabs
    ELSE SeqSweepFrom(SeqLevelFrom(tabs, dist, t, RangeLo(t)), dist, t - 1, floor)

ZeroTables ==
    <<[s \in Scores |-> [o \in Scores |-> FZero]],
      [s \in Scores |-> [o \in Scores |-> 0]]>>
(***************************************************************************)
(* brute_solver.py, save_csv() and load_csv().  Text is a sequence of      *)
(* one-character strings; a file is the sequence of its lines.  The texts  *)
(* given to int() and float() are made of digits, "+", "-", "." and "x":   *)
(* no blanks, quotes, underscores, exponents or float words (inf, nan).    *)
(***************************************************************************)
DigitChars == <<"0", "1", "2", "3", "4", "5", "6", "7", "8", "9">>

IsDigit(c) == \E i \in 1..10 : DigitChars[i] = c

DigitVal(c) == (CHOOSE i \in 1..10 : DigitChars[i] = c) - 1

AllDigits(text) == text # <<>> /\ \A i \in 1..Len(text) : IsDigit(text[i])

\* str(n) for n >= 0
RECURSIVE NatStr(_)
NatStr(n) ==
    IF n < 10 THEN <<DigitChars[n + 1]>>
    ELSE Append(NatStr(n \div 10), DigitChars[(n % 10) + 1])

\* str(n): how csv.writer writes an int
IntStr(n) == IF n < 0 THEN <<"-">> \o NatStr(-n) ELSE NatStr(n)

\* The number a text of digits denotes
RECURSIVE DigitsVal(_)
DigitsVal(text) ==
    IF text = <<>> THEN 0
    ELSE 10 * DigitsVal(SubSeq(text, 1, Len(text) - 1)) + DigitVal(text[Len(text)])

\* The text without its sign, and the sign
Unsigned(text) ==
    IF text # <<>> /\ text[1] \in {"+", "-"} THEN SubSeq(text, 2, Len(text)) ELSE text

SignOf(text) == IF text # <<>> /\ text[1] = "-" THEN -1 ELSE 1

\* int(text): [ok, val], ok FALSE for ValueError
ParseInt(text) ==
    IF AllDigits(Unsigned(text))
    THEN [ok |-> TRUE, val |-> SignOf(text) * DigitsVal(Unsigned(text))]
    ELSE [ok |-> FALSE, val |-> 0]

\* The natural number a bignat of at most two limbs is
BToInt(a) == BLimb(a, 1) + Base * BLimb(a, 2)

\* round(|x| * 10^digits), ties to even, on the exact value of the float x;
\* for |x| * 10^digits below Base^2
ScaledRound(x, digits) ==
    IF x.m = <<>> THEN 0
    ELSE LET T == BMul(x.m, BFromInt(10 ^ digits))
         IN  IF x.e >= 0 THEN BToInt(BShl(T, x.e))
             ELSE LET sh == -x.e
                      q == BShr(T, sh)
                      guard == BBit(T, sh - 1)
                      sticky == BLowNonZero(T, sh - 1)
                      up == guard = 1 /\ (sticky \/ BIsOdd(q))
                  IN  BToInt(q) + (IF up THEN 1 ELSE 0)

\* n as exactly width digits, zeros in front
RECURSIVE Padded(_, _)
Padded(n, width) ==
    IF width = 0 THEN <<>>
    ELSE Append(Padded(n \div 10, width - 1), DigitChars[(n % 10) + 1])

\* f'{x:.<digits>f}'
FormatFixed(x, digits) ==
    LET q == ScaledRound(x, digits)
    IN  (IF x.sg < 0 THEN <<"-">> ELSE <<>>)
        \o NatStr(q \div (10 ^ digits)) \o <<".">> \o Padded(q % (10 ^ digits), digits)

\* f'{x:.5f}': one decimal short
Format5(x) == FormatFixed(x, 5)

\* f'{win_prob[s][o]:.6f}'
Format6(x) == FormatFixed(x, 6)

\* Position of the first "." of a text, 0 if there is none
DotAt(text) ==
    IF \E i \in 1..Len(text) : text[i] = "."
    THEN CHOOSE i \in 1..Len(text) : text[i] = "." /\ \A j \in 1..(i - 1) : text[j] # "."
    ELSE 0

\* float(text): [ok, val], ok FALSE for ValueError.  The value is the float
\* nearest to the decimal number written; -0.0 is kept as 0.0, which it equals.
ParseFloat(text) ==
    LET u == Unsigned(text)
        dot == DotAt(u)
        ip == IF dot = 0 THEN u ELSE SubSeq(u, 1, dot - 1)
        fp == IF dot = 0 THEN <<>> ELSE SubSeq(u, dot + 1, Len(u))
        wellformed == /\ Len(ip) + Len(fp) > 0
                      /\ \A i \in 1..Len(ip) : IsDigit(ip[i])
                      /\ \A i \in 1..Len(fp) : IsDigit(fp[i])
        mag == FDivInt(DigitsVal(ip) * 10 ^ Len(fp) + DigitsVal(fp), 10 ^ Len(fp))
    IN  IF wellformed
        THEN [ok |-> TRUE, val |-> IF SignOf(text) < 0 THEN FNeg(mag) ELSE mag]
        ELSE [ok |-> FALSE, val |-> FZero]

\* The four column names of the header row
ColScore == <<"s", "c", "o", "r", "e">>

ColOpponentScore ==
    <<"o", "p", "p", "o", "n", "e", "n", "t", "_", "s", "c", "o", "r", "e">>

ColBestRoll == <<"b", "e", "s", "t", "_", "r", "o", "l", "l">>

ColWinProb == <<"w", "i", "n", "_", "p", "r", "o", "b">>

Header == <<ColScore, ColOpponentScore, ColBestRoll, ColWinProb>>

\* csv.writer: the fields of a row, separated by commas
RECURSIVE Join(_)
Join(fields) ==
    IF fields = <<>> THEN <<>>
    ELSE IF Len(fields) = 1 THEN fields[1]
    ELSE fields[1] \o <<",">> \o Join(Tail(fields))

\* csv.reader: the fields of a line
RECURSIVE SplitFrom(_, _, _, _)
SplitFrom(line, i, field, acc) ==
    IF i > Len(line) THEN Append(acc, field)
    ELSE IF line[i] = "," THEN SplitFrom(line, i + 1, <<>>, Append(acc, field))
    ELSE SplitFrom(line, i + 1, Append(field, line[i]), acc)

Split(line) == SplitFrom(line, 1, <<>>, <<>>)

\* writer.writerow([s, o, best_action[s][o], f'{win_prob[s][o]:.6f}'])
RowLine(s, o, best_roll, wp) ==
    Join(<<IntStr(s), IntStr(o), IntStr(best_roll), Format6(wp)>>)

\* row[name] of a csv.DictReader row: [err, text]; a column the line is too
\* short for reads None, which int() and float() refuse with TypeError.
RowGet(names, values, name) ==
    IF ~\E i \in 1..Len(names) : names[i] = name
    THEN [err |-> "KeyError", text |-> <<>>]
    ELSE LET at == CHOOSE i \in 1..Len(names) :
                      /\ names[i] = name
                      /\ \A j \in (i + 1)..Len(names) : names[j] # name
         IN  IF at > Len(values) THEN [err |-> "TypeError", text |-> <<>>]
             ELSE [err |-> "", text |-> values[at]]

\* int(row[name]): [err, val]
RowInt(names, values, name) ==
    LET got == RowGet(names, values, name)
    IN  IF got.err # "" THEN [err |-> got.err, val |-> 0]
        ELSE IF ~ParseInt(got.text).ok THEN [err |-> "ValueError", val |-> 0]
        ELSE [err |-> "", val |-> ParseInt(got.text).val]

\* float(row[name]): [err, val]
RowFloat(names, values, name) ==
    LET got == RowGet(names, values, name)
    IN  IF got.err # "" THEN [err |-> got.err, val |-> FZero]
        ELSE IF ~ParseFloat(got.text).ok THEN [err |-> "ValueError", val |-> FZero]
        ELSE [err |-> "", val |-> ParseFloat(got.text).val]

\* The subscript brought into the list: min(max(i, 0), 99)
ListIndexClamped(i) == [ok |-> TRUE, at |-> Min(Max(i, 0), N - 1)]

\* A subscript of a list of N items: [ok, at].  Python counts a negative
\* subscript from the end; anything else outside the list is an IndexError.
ListIndex(i) ==
    IF i >= 0 /\ i < N THEN [ok |-> TRUE, at |-> i]
    ELSE IF i < 0 /\ i >= -N THEN [ok |-> TRUE, at |-> i + N]
    ELSE [ok |-> FALSE, at |-> 0]

\* table[s][o] = v when every row of the table is one and the same list
\* ([[0] * 100] * 100)
ListSet2Aliased(table, s, o, v) ==
    [r \in Scores |-> [table[r] EXCEPT ![ListIndex(o).at] = v]]

\* table[s][o] = v, for subscripts inside the lists
ListSet2(table, s, o, v) ==
    [table EXCEPT ![ListIndex(s).at][ListIndex(o).at] = v]

\* Lines 137-139 for one row: [err, win_prob, best_action].  The right-hand
\* side of an assignment is evaluated before its subscripts, and line 138 is
\* complete before line 139 begins.
LoadOneRow(names, values, wp, ba) ==
    LET s == RowInt(names, values, ColScore)
        o == RowInt(names, values, ColOpponentScore)
        roll == RowInt(names, values, ColBestRoll)
        prob == RowFloat(names, values, ColWinProb)
        same == [err |-> "", win_prob |-> wp, best_action |-> ba]
    IN  IF s.err # "" THEN [same EXCEPT !.err = s.err]
        ELSE IF o.err # "" THEN [same EXCEPT !.err = o.err]
        ELSE IF roll.err # "" THEN [same EXCEPT !.err = roll.err]
        ELSE IF ~ListIndex(s.val).ok \/ ~ListIndex(o.val).ok
        THEN [same EXCEPT !.err = "IndexError"]
        ELSE IF prob.err # ""
        THEN [err |-> prob.err, win_prob |-> wp,
              best_action |-> ListSet2(ba, s.val, o.val, roll.val)]
        ELSE [err |-> "", win_prob |-> ListSet2(wp, s.val, o.val, prob.val),
              best_action |-> ListSet2(ba, s.val, o.val, roll.val)]

\* Lines 132-133: load_csv's two tables
LoadTables ==
    [win_prob |-> [s \in Scores |-> [o \in Scores |-> FZero]],
     best_action |-> [s \in Scores |-> [o \in Scores |-> 0]]]

(***************************************************************************)
(* The inputs of save_csv and of load_csv.                                 *)
(***************************************************************************)
\* Tables to save: entries k / (N*N - 1), from 0.0 to 1.0
GivenSpread ==
    [win_prob |-> [s \in Scores |-> [o \in Scores |-> FDivInt(s * N + o, N * N - 1)]],
     best_action |-> [s \in Scores |-> [o \in Scores |-> (s * N + o) % (MaxRolls + 1)]]]

\* Tables to save: entries k / 128, whose seventh decimal is 5 for odd k
GivenHalves ==
    [win_prob |-> [s \in Scores |-> [o \in Scores |->
                      FDivInt((7 * (s * N + o)) % 129, 128)]],
     best_action |-> [s \in Scores |-> [o \in Scores |-> (s + 2 * o) % (MaxRolls + 1)]]]

GivenTables == {GivenSpread, GivenHalves}

\* The fields of a row with the given numbers; the win_prob field is a text
Row(s, o, best_roll, text) == <<IntStr(s), IntStr(o), IntStr(best_roll), text>>

\* The file with this header and these rows (sequences of fields)
FileOf(header, rows) == <<Join(header)>> \o [i \in 1..Len(rows) |-> Join(rows[i])]

\* Every order of the rows of a set
Orders(rows) ==
    {f \in [1..Cardinality(rows) -> rows] :
        \A i, j \in 1..Cardinality(rows) : i # j => f[i] # f[j]}

ThreeRows ==
    {Row(0, 0, 5, <<"0", ".", "5">>),
     Row(1, 2, 10, <<"1">>),
     Row(N - 1, N - 1, 0, <<"0", ".", "0", "0", "0", "0", "0", "1">>)}

FourRows ==
    {Row(2, 1, 3, <<".", "7", "5">>),
     Row(1, 2, 4, <<"0", ".", "2", "5">>),
     Row(0, N - 1, 1, <<"1", ".", "0">>),
     Row(N - 1, 0, 9, <<"0">>)}

\* Files of valid rows, no pair twice, in every order
OrderedFiles == {FileOf(Header, f) : f \in Orders(ThreeRows) \cup Orders(FourRows)}

Half == <<"0", ".", "5">>

\* Files as a hand or another program may leave them
OtherFiles ==
    {<<>>,
     FileOf(Header, <<>>),
     \* the columns in another order
     FileOf(<<ColWinProb, ColBestRoll, ColOpponentScore, ColScore>>,
            << <<Half, <<"7">>, <<"2">>, <<"1">> >> >>),
     \* a blank line, a pair given twice, a sixth field
     <<Join(Header), Join(Row(3, 4, 2, Half)), <<>>, Join(Row(3, 4, 6, <<"1">>))>>,
     FileOf(Header, <<Row(1, 1, 2, Half) \o <<<<"x">>>> >>),
     \* a column missing from the header, and from a row
     FileOf(<<ColScore, ColOpponentScore, ColWinProb>>, << <<<<"0">>, <<"0">>, Half>> >>),
     FileOf(Header, <<Row(2, 3, 4, Half), <<<<"1">>, <<"1">>, <<"3">> >> >>),
     \* fields that are no numbers, the first after a good row
     FileOf(Header, <<Row(2, 3, 4, Half), <<<<"x">>, <<"0">>, <<"1">>, Half>> >>),
     FileOf(Header, <<Row(0, 0, 1, <<"0", ".", "5", "x">>)>>),
     FileOf(Header, << <<<<"0">>, <<"0">>, <<"1", ".", "0">>, Half>> >>),
     \* subscripts past the table
     FileOf(Header, <<Row(1, 0, 7, Half), Row(N, 0, 1, Half)>>),
     FileOf(Header, <<Row(0, N, 1, Half)>>),
     FileOf(Header, <<Row(-(N + 1), 0, 1, Half)>>),
     \* negative subscripts, and values out of range
     FileOf(Header, <<Row(-1, 0, 5, Half)>>),
     FileOf(Header, <<Row(0, -N, 5, Half)>>),
     FileOf(Header, <<Row(0, 0, MaxRolls + 1, Half)>>),
     FileOf(Header, <<Row(0, 0, -3, Half)>>),
     FileOf(Header, <<Row(0, 0, 1, <<"1", ".", "5">>)>>),
     FileOf(Header, <<Row(0, 0, 1, <<"-", "0", ".", "5">>)>>)}

GivenFiles == OrderedFiles \cup OtherFiles

(***************************************************************************)
(* save_csv(win_prob, best_action) and load_csv(), on one file.            *)
(***************************************************************************)
\* The caller has tables to save, or finds a file to load.
InitTables ==
    /\ \/ /\ io_pc = "save"
          /\ given \in GivenTables
          /\ file = <<>>
       \/ /\ io_pc = "saved"
          /\ given = NoTables
          /\ file \in GivenFiles
    /\ line_no = 0
    /\ fieldnames = <<>>
    /\ ld_win_prob = <<>>
    /\ ld_best_action = <<>>
    /\ loaded = NoResult
    /\ StrategyOff
    /\ RollOff
    /\ PlayOff
    /\ pc = "key"
    /\ sides_i = 1
    /\ num_rolls = 1
    /\ dice = 0
    /\ ways = <<>>
    /\ outcomes = <<>>
    /\ dice_dist = <<>>
    /\ way_counts = <<>>
    /\ total = TopTotal
    /\ s_next = 0
    /\ win_prob = <<>>
    /\ best_action = <<>>
    /\ writes = [p \in States |-> 0]
    /\ skipped = 0
    /\ bad_reads = {}
    /\ cur = NoState
    /\ pending = {}
    /\ tables_id = 0
    /\ heap = <<>>
    /\ call = 1
    /\ returned = NoReturn

\* Lines 121-123: the file opened for writing, and the header row
SaveOpen ==
    /\ io_pc = "save"
    /\ file' = <<Join(Header)>>
    /\ line_no' = 0
    /\ io_pc' = "save_rows"
    /\ UNCHANGED <<given, fieldnames, ld_win_prob, ld_best_action, loaded>>
    /\ UNCHANGED solveVars
    /\ UNCHANGED stratVars
    /\ UNCHANGED rollVars
    /\ UNCHANGED playVars

\* Lines 124-126: the row of one (s, o), s in the outer loop
SaveRow ==
    /\ io_pc = "save_rows"
    /\ line_no < N * N
    /\ \E s \in {line_no \div N}, o \in {line_no % N} :
          file' = Append(file, RowLine(s, o, given.best_action[s][o],
                                       given.win_prob[s][o]))
    /\ line_no' = line_no + 1
    /\ UNCHANGED <<io_pc, given, fieldnames, ld_win_prob, ld_best_action, loaded>>
    /\ UNCHANGED solveVars
    /\ UNCHANGED stratVars
    /\ UNCHANGED rollVars
    /\ UNCHANGED playVars

\* Line 127: the file is closed and save_csv returns
SaveReturn ==
    /\ io_pc = "save_rows"
    /\ line_no = N * N
    /\ io_pc' = "saved"
    /\ UNCHANGED <<given, file, line_no, fieldnames, ld_win_prob, ld_best_action, loaded>>
    /\ UNCHANGED solveVars
    /\ UNCHANGED stratVars
    /\ UNCHANGED rollVars
    /\ UNCHANGED playVars

\* Lines 132-135: the tables, and the reader with the header line as its
\* field names (none when the file is empty or begins with a blank line)
LoadOpen ==
    /\ io_pc = "saved"
    /\ ld_win_prob' = LoadTables.win_prob
    /\ ld_best_action' = LoadTables.best_action
    /\ fieldnames' = IF file = <<>> \/ file[1] = <<>> THEN <<>> ELSE Split(file[1])
    /\ line_no' = 2
    /\ io_pc' = "load_rows"
    /\ UNCHANGED <<given, file, loaded>>
    /\ UNCHANGED solveVars
    /\ UNCHANGED stratVars
    /\ UNCHANGED rollVars
    /\ UNCHANGED playVars

\* Lines 136-139 for the next line; the reader passes over a blank line, and
\* an exception leaves load_csv at once
LoadRow ==
    /\ io_pc = "load_rows"
    /\ line_no <= Len(file)
    /\ line_no' = line_no + 1
    /\ IF file[line_no] = <<>>
       THEN UNCHANGED <<io_pc, ld_win_prob, ld_best_action, loaded>>
       ELSE \E res \in {LoadOneRow(fieldnames, Split(file[line_no]),
                                   ld_win_prob, ld_best_action)} :
               /\ ld_win_prob' = res.win_prob
               /\ ld_best_action' = res.best_action
               /\ IF res.err = ""
                  THEN UNCHANGED <<io_pc, loaded>>
                  ELSE /\ io_pc' = "raised"
                       /\ loaded' = [kind |-> "error", error |-> res.err]
    /\ UNCHANGED <<given, file, fieldnames>>
    /\ UNCHANGED solveVars
    /\ UNCHANGED stratVars
    /\ UNCHANGED rollVars
    /\ UNCHANGED playVars

\* Line 140: return win_prob, best_action
LoadReturn ==
    /\ io_pc = "load_rows"
    /\ line_no > Len(file)
    /\ loaded' = [kind |-> "tables", win_prob |-> ld_win_prob,
                  best_action |-> ld_best_action]
    /\ io_pc' = "loaded"
    /\ UNCHANGED <<given, file, line_no, fieldnames, ld_win_prob, ld_best_action>>
    /\ UNCHANGED solveVars
    /\ UNCHANGED stratVars
    /\ UNCHANGED rollVars
    /\ UNCHANGED playVars

NextTables ==
    \/ SaveOpen
    \/ SaveRow
    \/ SaveReturn
    \/ LoadOpen
    \/ LoadRow
    \/ LoadReturn

SpecTables == InitTables /\ [][NextTables]_vars

(***************************************************************************)
(* brute_solver.py, make_optimal_strategy(best_action).                    *)
(***************************************************************************)
\* The solver not yet called: every variable of solve() as Init has it.
SolveIdle ==
    /\ pc = "key"
    /\ sides_i = 1
    /\ num_rolls = 1
    /\ dice = 0
    /\ ways = <<>>
    /\ outcomes = <<>>
    /\ dice_dist = <<>>
    /\ way_counts = <<>>
    /\ total = TopTotal
    /\ s_next = 0
    /\ win_prob = <<>>
    /\ best_action = <<>>
    /\ writes = [p \in States |-> 0]
    /\ skipped = 0
    /\ bad_reads = {}
    /\ cur = NoState
    /\ pending = {}
    /\ tables_id = 0
    /\ heap = <<>>
    /\ call = 1
    /\ returned = NoReturn

\* table.get-like reading: 0 for a subscript outside the lists
ListGet2Default(table, s, o) ==
    IF s \in Scores /\ o \in Scores THEN [err |-> "", val |-> table[s][o]]
    ELSE [err |-> "", val |-> 0]

\* table[s][o]: [err, val]
ListGet2(table, s, o) ==
    IF ~ListIndex(s).ok \/ ~ListIndex(o).ok THEN [err |-> "IndexError", val |-> 0]
    ELSE [err |-> "", val |-> table[ListIndex(s).at][ListIndex(o).at]]

\* The arguments a caller may pass: scores, and values on either side of them
QueryScores == (-1)..(N + 1)

\* A table whose entries tell their place
PlaceTable == [s \in Scores |-> [o \in Scores |-> (3 * s + 5 * o) % (MaxRolls + 1)]]

ActionTables == {PlaceTable, GivenSpread.best_action, GivenHalves.best_action}

InitStrategy ==
    /\ strat_table \in ActionTables
    /\ answer = NoAnswer
    /\ CsvOff
    /\ RollOff
    /\ PlayOff
    /\ SolveIdle

\* Lines 114-115: strategy(score, opponent_score)
Strategy ==
    /\ \E score \in QueryScores, opponent_score \in QueryScores :
          \E got \in {ListGet2(strat_table, score, opponent_score)} :
             answer' = [asked |-> <<score, opponent_score>>, err |-> got.err,
                        val |-> got.val]
    /\ UNCHANGED strat_table
    /\ UNCHANGED solveVars
    /\ UNCHANGED csvVars
    /\ UNCHANGED rollVars
    /\ UNCHANGED playVars

NextStrategy == Strategy

SpecStrategy == InitStrategy /\ [][NextStrategy]_vars

(***************************************************************************)
(* hog.py, roll_dice(num_rolls, dice).  The dice is a zero-argument        *)
(* function; the one passed here gives the outcomes of test_dice in turn   *)
(* and starts over after the last, as make_test_dice(3, 1, 5, 6) does in   *)
(* the doctest of make_averaged.                                           *)
(***************************************************************************)
MaxCalls == 3
MaxNumRolls == 3

InSeq(x, seq) == \E k \in 1..Len(seq) : seq[k] = x

RECURSIVE SumFrom(_, _, _)
SumFrom(seq, k, acc) ==
    IF acc < 0 \/ k > Len(seq) THEN acc
    ELSE SumFrom(seq, k + 1, acc + seq[k])

\* sum(dice_list)
Sum(seq) == SumFrom(seq, 1, 0)

\* a loop that leaves at the first 1
LoopUntilOne(i, n, list) == i < n /\ ~InSeq(1, list)

\* Line 28: for i in range(num_rolls) has another turn
LoopGoesOn(i, n, list) == i < n

\* Lines 31-34
Points(list) == IF InSeq(1, list) THEN 1 ELSE Sum(list)

TestDices == {<<3, 1, 5, 6>>, <<1>>, <<6>>, <<2, 3, 4>>, <<4, 1, 2>>, <<1, 5>>}

InitRoll ==
    /\ test_dice \in TestDices
    /\ dice_pos = 1
    /\ rd_pc = "idle"
    /\ rd_num_rolls = 0
    /\ rd_i = 0
    /\ dice_list = <<>>
    /\ dice_calls = 0
    /\ rolls = <<>>
    /\ CsvOff
    /\ StrategyOff
    /\ PlayOff
    /\ SolveIdle

\* Lines 23-27: a call of roll_dice; num_rolls = 0 fails the assertion.
RollCall ==
    /\ rd_pc = "idle"
    /\ Len(rolls) < MaxCalls
    /\ \E n \in 0..MaxNumRolls :
          /\ rd_num_rolls' = n
          /\ IF n > 0
             THEN /\ rd_pc' = "loop"
                  /\ rolls' = rolls
             ELSE /\ rd_pc' = "idle"
                  /\ rolls' = Append(rolls, [num_rolls |-> n, calls |-> 0,
                                             outcomes |-> <<>>, points |-> 0,
                                             err |-> "AssertionError"])
    /\ rd_i' = 0
    /\ dice_list' = <<>>
    /\ dice_calls' = 0
    /\ UNCHANGED <<test_dice, dice_pos>>
    /\ UNCHANGED <<solveVars, csvVars, stratVars, playVars>>

\* Lines 28-30: one turn of the loop, which calls dice() once.
RollOne ==
    /\ rd_pc = "loop"
    /\ LoopGoesOn(rd_i, rd_num_rolls, dice_list)
    /\ dice_list' = Append(dice_list, test_dice[dice_pos])
    /\ dice_pos' = (dice_pos % Len(test_dice)) + 1
    /\ dice_calls' = dice_calls + 1
    /\ rd_i' = rd_i + 1
    /\ UNCHANGED <<test_dice, rd_pc, rd_num_rolls, rolls>>
    /\ UNCHANGED <<solveVars, csvVars, stratVars, playVars>>

\* Lines 31-35: the loop is over; the points are returned.
RollReturn ==
    /\ rd_pc = "loop"
    /\ ~LoopGoesOn(rd_i, rd_num_rolls, dice_list)
    /\ rolls' = Append(rolls, [num_rolls |-> rd_num_rolls, calls |-> dice_calls,
                               outcomes |-> dice_list, points |-> Points(dice_list),
                               err |-> ""])
    /\ rd_pc' = "idle"
    /\ UNCHANGED <<test_dice, dice_pos, rd_num_rolls, rd_i, dice_list, dice_calls>>
    /\ UNCHANGED <<solveVars, csvVars, stratVars, playVars>>

NextRoll == RollCall \/ RollOne \/ RollReturn

SpecRoll == InitRoll /\ [][NextRoll]_vars

(***************************************************************************)
(* hog.py: simple_strategy, take_turn, play and winner.  The goal of play  *)
(* is the side of the solver's table.                                      *)
(***************************************************************************)
GOAL_SCORE == N

\* Lines 122-137.  (// is floor division, as \div is.)
simple_strategy(score, opponent_score) ==
    LET lead == score - opponent_score
        risk_dividend == 18
        risk == lead \div risk_dividend
        d6_best == Min(Max(3, 6 - risk), 9)
        d4_best == Min(Max(0, 4 - risk), 0)
        dist_to_d4 == score + (opponent_score % 7)
        rolling_d6 == dist_to_d4 # 0
    IN  IF rolling_d6 THEN d6_best ELSE d4_best

\* The outcomes a dice of the given number of sides can give.
DiceFaces(sides) == 1..sides

\* roll_dice after k calls of the dice: whether a 1 was among the outcomes,
\* and their sum.
RECURSIVE RollStates(_, _)
RollStates(k, sides) ==
    IF k = 0 THEN {<<FALSE, 0>>}
    ELSE {<<r[1] \/ f = 1, r[2] + f>> : r \in RollStates(k - 1, sides),
                                        f \in DiceFaces(sides)}

\* The values roll_dice(k, dice) can return: lines 31-34 on every list.
RollScores(k, sides) == {IF r[1] THEN 1 ELSE r[2] : r \in RollStates(k, sides)}

\* The function f with all its values computed, once.
Computed(f) == IF f = f THEN f ELSE f

RollScoreTable ==
    Computed([key \in {Sides[i] : i \in 1..Len(Sides)} \X (1..MaxRolls) |->
                 RollScores(key[2], key[1])])

\* roll_dice(num_rolls, dice) with its assertion on num_rolls: [err, scores]
roll_dice(n, sides) ==
    IF ~(n > 0) THEN [err |-> "Must roll at least once.", scores |-> {}]
    ELSE [err |-> "", scores |-> RollScoreTable[<<sides, n>>]]

\* take_turn(num_rolls, opponent_score, dice): [err, scores], the assertion
\* that fails or the turn scores it can return.
take_turn(n, opponent_score, sides) ==
    IF n < 0 THEN [err |-> "Cannot roll a negative number of dice.", scores |-> {}]
    ELSE IF n > 10 THEN [err |-> "Cannot roll more than 10 dice.", scores |-> {}]
    ELSE IF ~(opponent_score < GOAL_SCORE)
    THEN [err |-> "The game should be over.", scores |-> {}]
    ELSE IF n = 0 THEN [err |-> "", scores |-> {FreeBacon(opponent_score)}]
    ELSE roll_dice(n, sides)

\* the same player again
OtherSame(player) == player

\* other(who)
other(player) == 1 - player

\* a loop that goes on while either score is below the goal
LoopWhileEither(s0, s1, goal) == s0 < goal \/ s1 < goal

\* Line 99: while score0 < goal and score1 < goal
LoopWhile(s0, s1, goal) == s0 < goal /\ s1 < goal

\* the scores left as they are
PlayNoSwap(s0, s1) == <<s0, s1>>

\* Lines 105-106: the pair <<score0, score1>> after the swap rule
PlaySwap(s0, s1) == IF s0 = 2 * s1 \/ s1 = 2 * s0 THEN <<s1, s0>> ELSE <<s0, s1>>

\* the comparison turned round
WinnerOfLess(s0, s1) == IF s0 < s1 THEN 0 ELSE 1

\* Lines 199-202
WinnerOf(s0, s1) == IF s0 > s1 THEN 0 ELSE 1

StrategyNames == {"simple_strategy", "always"}

\* The numbers of dice a strategy may return for the player at score.
StrategyRolls(name, score, opponent_score) ==
    IF name = "simple_strategy" THEN {simple_strategy(score, opponent_score)}
    ELSE 0..MaxRolls

\* play(strategy0, strategy1) is called; lines 96-97.
InitPlay ==
    /\ strategies \in StrategyNames \X StrategyNames
    /\ who = 0
    /\ score0 = 0
    /\ score1 = 0
    /\ turns = 0
    /\ pl_pc = "loop"
    /\ pl_err = ""
    /\ won = -1
    /\ CsvOff
    /\ StrategyOff
    /\ RollOff
    /\ SolveIdle

\* Lines 99-107: the body of the loop, once.
PlayTurn ==
    /\ pl_pc = "loop"
    /\ LoopWhile(score0, score1, GOAL_SCORE)
    /\ \E mine \in {IF who = 0 THEN score0 ELSE score1},
          theirs \in {IF who = 0 THEN score1 ELSE score0} :
          \E n \in StrategyRolls(strategies[who + 1], mine, theirs) :
             \E turn \in {take_turn(n, theirs, select_dice(score0, score1))} :
                IF turn.err # ""
                THEN /\ pl_pc' = "error"
                     /\ pl_err' = turn.err
                     /\ UNCHANGED <<who, score0, score1>>
                ELSE \E gain \in turn.scores :
                     \E after \in {IF who = 0 THEN PlaySwap(score0 + gain, score1)
                                   ELSE PlaySwap(score0, score1 + gain)} :
                        /\ score0' = after[1]
                        /\ score1' = after[2]
                        /\ who' = other(who)
                        /\ UNCHANGED <<pl_pc, pl_err>>
    /\ turns' = turns + 1
    /\ UNCHANGED <<strategies, won>>
    /\ UNCHANGED <<solveVars, csvVars, stratVars, rollVars>>

\* Line 109: the loop is left and the scores are returned.
PlayReturn ==
    /\ pl_pc = "loop"
    /\ ~LoopWhile(score0, score1, GOAL_SCORE)
    /\ pl_pc' = "returned"
    /\ UNCHANGED <<strategies, who, score0, score1, turns, pl_err, won>>
    /\ UNCHANGED <<solveVars, csvVars, stratVars, rollVars>>

\* Lines 198-202: winner() on the scores play returned.
Winner ==
    /\ pl_pc = "returned"
    /\ won = -1
    /\ won' = WinnerOf(score0, score1)
    /\ UNCHANGED <<strategies, who, score0, score1, turns, pl_pc, pl_err>>
    /\ UNCHANGED <<solveVars, csvVars, stratVars, rollVars>>

NextPlay == PlayTurn \/ PlayReturn \/ Winner

SpecPlay == InitPlay /\ [][NextPlay]_vars

\* play() and winner() are sequential code: a step that can be taken is taken.
SpecPlayFair == SpecPlay /\ WF_vars(NextPlay)

(***************************************************************************)
(* Properties of solve() and of the distributions.                         *)
(***************************************************************************)
Level(p) == p[1] + p[2]

Actions == 0..MaxRolls

\* The value of every action of (s, o), recomputed from the tables as they are.
ValuesOf(s, o) ==
    [a \in Actions |-> ActionValue(win_prob, DistOf(dice_dist), s, o, a)]

IsMaxOf(vals, s, o) ==
    /\ \A a \in Actions : FLeq(vals[a], win_prob[s][o])
    /\ best_action[s][o] \in Actions
    /\ vals[best_action[s][o]] = win_prob[s][o]

\* C1: after solve() returns, win_prob[s][o] is the maximum over the 11
\* actions of the action's value recomputed from the final tables, and
\* best_action[s][o] is an action of that value: no action has a higher one.
C1_StoredIsMax ==
    pc = "done" =>
        \A s \in Scores, o \in Scores : IsMaxOf(ValuesOf(s, o), s, o)

\* The tables are solved, and the opening state was decided by a dice action
\* whose value, computed from looked-up successors, is strictly between 0 and 1.
C1_Witness ==
    /\ pc = "done"
    /\ best_action[0][0] >= 1
    /\ FLess(FZero, win_prob[0][0])
    /\ FLess(win_prob[0][0], FOne)

IsFirstMaxOf(vals, s, o) ==
    /\ \A a \in Actions : a < best_action[s][o] => FLess(vals[a], win_prob[s][o])
    /\ vals[best_action[s][o]] = win_prob[s][o]
    /\ (\A a \in Actions : ~FLess(vals[0], vals[a])) => best_action[s][o] = 0

\* C2: ties go to the lowest roll count: best_action[s][o] is the smallest
\* num_rolls whose value equals the maximum, so 0 is stored whenever no
\* dice action is strictly better than the free action.
C2_LowestRollWins ==
    pc = "done" =>
        \A s \in Scores, o \in Scores : IsFirstMaxOf(ValuesOf(s, o), s, o)

\* A solved state in which a later action ties with the stored one.
C2_Witness ==
    /\ pc = "done"
    /\ \E s \in Scores, o \in Scores :
          \E a \in Actions :
              /\ a > best_action[s][o]
              /\ ValuesOf(s, o)[a] = win_prob[s][o]

\* C3: every read of win_prob[a][b] made while a state is evaluated has a
\* and b inside the table and comes after the sweep wrote win_prob[a][b].
C3_ReadsAreSolved ==
    /\ pc # "error"
    /\ bad_reads = {}
    /\ cur.reads \subseteq States
    /\ \A r \in cur.reads : writes[r] >= 1

\* A state was evaluated that looked successors up.
C3_Witness == pc = "sweep" /\ cur.reads # {}

\* The level of the state evaluated last; above every level before the first.
CurLevel == IF cur = NoState THEN 2 * N - 1 ELSE cur.s + cur.o

\* C4: states are evaluated in decreasing order of s + o, from 2N - 2 down
\* to 0: what is evaluated is every state of the levels above the current
\* one and no state of a level below it, and the current level is total.
C4_DescendingLevels ==
    /\ \A p \in States :
          /\ Level(p) > CurLevel => writes[p] >= 1
          /\ Level(p) < CurLevel => writes[p] = 0
    /\ (cur # NoState /\ pc = "sweep") => CurLevel >= total
    /\ (cur # NoState /\ pc = "sweep" /\ s_next > RangeLo(total)) => CurLevel = total
    /\ pc = "done" => (CurLevel = 0 /\ \A p \in States : writes[p] >= 1)

\* A level below the top is half done: one of its states is evaluated,
\* another is not yet.
C4_Witness ==
    /\ pc = "sweep"
    /\ CurLevel < 2 * N - 2
    /\ \E p \in States, q \in States :
          /\ Level(p) = CurLevel /\ writes[p] = 1
          /\ Level(q) = CurLevel /\ writes[q] = 0

C5_State ==
    /\ skipped = 0
    /\ \A p \in States : writes[p] <= 1
    /\ (pc = "sweep" /\ total >= 2 * N - 1) => \A p \in States : writes[p] = 0
    /\ pc = "done" => \A p \in States : writes[p] = 1

C5_Step ==
    \A p \in States :
        writes[p] >= 1 =>
            /\ win_prob'[p[1]][p[2]] = win_prob[p[1]][p[2]]
            /\ best_action'[p[1]][p[2]] = best_action[p[1]][p[2]]

\* C5: one call of solve() assigns each entry of the two tables exactly
\* once and never changes an entry it has assigned; the iterations with
\* total >= 2N - 1 assign nothing, and the guard on o is never true.
C5_WrittenOnce == [](C5_State) /\ [][C5_Step]_vars

\* solve() returned with every entry assigned once.
C5_Witness ==
    /\ pc = "done"
    /\ \A p \in States : writes[p] = 1
    /\ skipped = 0

\* C6: every entry of win_prob is in [0, 1] and every entry of best_action
\* in 0..10, at every point of the sweep and after it.
C6_InRange ==
    pc \in {"sweep", "done"} =>
        \A s \in Scores, o \in Scores :
            /\ FLeq(FZero, win_prob[s][o])
            /\ FLeq(win_prob[s][o], FOne)
            /\ best_action[s][o] \in Actions

\* C7: where the free-action gain alone reaches the goal, the solved tables
\* hold win_prob = 1.0 and best_action = 0.
C7_FreeGainWins ==
    pc = "done" =>
        \A s \in Scores, o \in Scores :
            s + BaconPoints(o) >= N =>
                /\ win_prob[s][o] = FOne
                /\ best_action[s][o] = 0
\* The sum of the way-counts of a dict of <<sum, count>> items.
RECURSIVE CountSum(_, _)
CountSum(items, i) == IF i > Len(items) THEN 0 ELSE items[i][2] + CountSum(items, i + 1)

\* sum(outcomes.values()), added in the order of the dict
RECURSIVE ProbSum(_, _, _)
ProbSum(items, i, acc) ==
    IF acc.sg = 0 \/ i > Len(items) THEN acc
    ELSE ProbSum(items, i + 1, FAdd(acc, items[i][2]))

\* 1e-9
Tolerance == FDivInt(1, 10 ^ 9)

Normalized(key) ==
    LET d == key[1]
        k == key[2]
        cnt == DictGet(way_counts, key, <<>>)
        out == DictGet(dice_dist, key, <<>>)
        sum == ProbSum(out, 1, FZero)
    IN  /\ cnt.bust + CountSum(cnt.ways, 1) = d ^ k
        /\ cnt.bust >= 0
        /\ \A i \in 1..Len(cnt.ways) : cnt.ways[i][2] >= 0
        \* the stored probabilities are these counts over d^k
        /\ Len(out) = Len(cnt.ways) + 1
        /\ out[1] = <<1, FDivInt(cnt.bust, d ^ k)>>
        /\ \A i \in 1..Len(cnt.ways) :
              out[i + 1] = <<cnt.ways[i][1], FDivInt(cnt.ways[i][2], d ^ k)>>
        /\ \A i \in 1..Len(out) : FLeq(FZero, out[i][2])
        \* and sum to 1.0 within 1e-9
        /\ FLeq(FSub(FOne, Tolerance), sum)
        /\ FLeq(sum, FAdd(FOne, Tolerance))

AllKeys == {4, 6} \X (1..MaxRolls)

\* C9: every distribution _precompute_dice_distributions returns is
\* normalized: the bust count d^k - (d-1)^k plus the way-counts of the
\* non-bust outcomes is d^k, and no count is negative.
C9_Normalized ==
    pc = "alloc" =>
        /\ DictKeys(dice_dist) = AllKeys
        /\ \A key \in AllKeys : Normalized(key)

\* The function has returned all 20 distributions; the one of ten six-sided
\* dice has its 42 outcomes.
C9_Witness ==
    /\ pc = "alloc"
    /\ Len(dice_dist) = 20
    /\ Len(DictGet(dice_dist, <<6, 10>>, <<>>)) = 42

\* C10: the dice depend on the combined score alone: four-sided for (s, o)
\* exactly when (s + o) mod 7 = 0, six-sided otherwise, as select_dice picks.
C10_DiceByCombinedScore ==
    /\ cur # NoState =>
          /\ cur.sides = select_dice(cur.s, cur.o)
          /\ cur.sides = 4 <=> (cur.s + cur.o) % 7 = 0
          /\ cur.sides = 6 <=> (cur.s + cur.o) % 7 # 0
    /\ pc = "alloc" =>
          \A s \in 0..99, o \in 0..99 :
              /\ NumSides(s, o) = select_dice(s, o)
              /\ NumSides(s, o) = 4 <=> (s + o) % 7 = 0
              /\ NumSides(s, o) = 6 <=> (s + o) % 7 # 0
    /\ NumSides(0, 0) = 4 /\ select_dice(0, 0) = 4
    /\ NumSides(4, 24) = 4 /\ select_dice(4, 24) = 4
    /\ NumSides(16, 64) = 6 /\ select_dice(16, 64) = 6
    /\ NumSides(90, 90) = 6 /\ select_dice(90, 90) = 6

\* A state with a positive score for the mover was evaluated with four-sided
\* dice, its combined score being a multiple of 7.
C10_Witness ==
    /\ cur # NoState
    /\ cur.s > 0
    /\ cur.sides = 4
    /\ (cur.s + cur.o) % 7 = 0
\* What the list objects with identity id hold now.
Held(id) == [win_prob |-> heap[id].win_prob, best_action |-> heap[id].best_action]

\* C11: solve() can be run again.  All through the second call the list
\* objects the first call returned hold what they held at its return and no
\* step of the second call has read or written them; the second call stores
\* into list objects of its own; and it returns tables equal to the first
\* call's, whatever the first call left behind.
C11_RerunSameTables ==
    /\ call = 2 =>
          /\ returned.id \in DOMAIN heap
          /\ DOMAIN returned.win_prob = Scores
          /\ Held(returned.id) = [win_prob |-> returned.win_prob,
                                  best_action |-> returned.best_action]
          /\ heap[returned.id].used_by = {1}
    /\ (call = 2 /\ pc \in {"sweep", "done"}) =>
          /\ tables_id # returned.id
          /\ Held(tables_id) = [win_prob |-> win_prob, best_action |-> best_action]
          /\ heap[tables_id].used_by = {2}
    /\ (call = 2 /\ pc = "done") =>
          /\ win_prob = returned.win_prob
          /\ best_action = returned.best_action
          /\ Held(tables_id) = Held(returned.id)

\* The second call has returned, its opening state decided by a dice action;
\* the caller holds two pairs of tables, each written by one call.
C11_Witness ==
    /\ call = 2
    /\ pc = "done"
    /\ DOMAIN heap = {returned.id, tables_id}
    /\ tables_id # returned.id
    /\ best_action[0][0] >= 1
    /\ \A p \in States : writes[p] = 1

FAbs(x) == [x EXCEPT !.sg = 1]

\* 1e-6
RoundTripTolerance == FDivInt(1, 10 ^ 6)

\* Tables as the claim supposes them
InClaimRange(tabs) ==
    \A s \in Scores, o \in Scores :
        /\ tabs.best_action[s][o] \in Actions
        /\ FLeq(FZero, tabs.win_prob[s][o])
        /\ FLeq(tabs.win_prob[s][o], FOne)

\* C12: round trip: load_csv of the file save_csv wrote returns best_action
\* as it was and a win_prob within 1e-6 of the original at every state,
\* for tables with best_action in 0..10 and win_prob in [0, 1].
C12_RoundTrip ==
    (given # NoTables /\ InClaimRange(given)) =>
        /\ io_pc # "raised"
        /\ io_pc = "loaded" =>
              /\ loaded.kind = "tables"
              /\ loaded.best_action = given.best_action
              /\ \A s \in Scores, o \in Scores :
                    FLeq(FAbs(FSub(loaded.win_prob[s][o], given.win_prob[s][o])),
                         RoundTripTolerance)

\* A saved table came back with an entry that the six decimals changed and
\* an entry they kept.
C12_Witness ==
    /\ io_pc = "loaded"
    /\ given # NoTables
    /\ Len(file) = N * N + 1
    /\ \E s \in Scores, o \in Scores : loaded.win_prob[s][o] # given.win_prob[s][o]
    /\ \E s \in Scores, o \in Scores :
          /\ loaded.win_prob[s][o] = given.win_prob[s][o]
          /\ given.win_prob[s][o] # FZero

\* The data lines of a file: those after the header that are not blank
DataLines(f) == {i \in 2..Len(f) : f[i] # <<>>}

\* The text a line has under a column of the standard header, <<>> if none
FieldOf(line, col) ==
    IF col <= Len(Split(line)) THEN Split(line)[col] ELSE <<>>

IsIntText(text) == AllDigits(Unsigned(text))

IntOf(text) == SignOf(text) * DigitsVal(Unsigned(text))

\* A line under the standard header whose score, opponent_score or
\* best_roll is a number outside its range
OutOfRange(line) ==
    \/ IsIntText(FieldOf(line, 1)) /\ IntOf(FieldOf(line, 1)) \notin Scores
    \/ IsIntText(FieldOf(line, 2)) /\ IntOf(FieldOf(line, 2)) \notin Scores
    \/ IsIntText(FieldOf(line, 3)) /\ IntOf(FieldOf(line, 3)) \notin Actions

\* C13: load_csv fails whenever a row carries a (score, opponent_score)
\* outside the table, negative values included, or a best_roll outside
\* 0..10: no file with such a row is loaded, and no such value is stored.
C13_OutOfRangeRefused ==
    (io_pc = "loaded" /\ given = NoTables /\ file # <<>> /\ file[1] = Join(Header)) =>
        /\ \A i \in DataLines(file) : ~OutOfRange(file[i])
        /\ \A s \in Scores, o \in Scores : loaded.best_action[s][o] \in Actions

\* A line that cannot be loaded under the header of its file: a column is
\* missing from the header or from the line, a field is no number, or a
\* subscript is past the table.
Malformed(header, line) ==
    LET at(name) == IF \E i \in 1..Len(header) : header[i] = name
                    THEN CHOOSE i \in 1..Len(header) :
                            /\ header[i] = name
                            /\ \A j \in (i + 1)..Len(header) : header[j] # name
                    ELSE 0
        missing(name) == at(name) = 0 \/ at(name) > Len(Split(line))
        text(name) == Split(line)[at(name)]
    IN  \/ \E name \in {ColScore, ColOpponentScore, ColBestRoll, ColWinProb} :
              missing(name)
        \/ \E name \in {ColScore, ColOpponentScore, ColBestRoll} :
              ~IsIntText(text(name))
        \/ ~ParseFloat(text(ColWinProb)).ok
        \/ \E name \in {ColScore, ColOpponentScore} :
              IntOf(text(name)) >= N \/ IntOf(text(name)) < -N

HeaderOf(f) == IF f = <<>> \/ f[1] = <<>> THEN <<>> ELSE Split(f[1])

\* C14: a load that fails gives the caller the failure and no table: until
\* load_csv returns the caller holds nothing, a file with a malformed line
\* ends in an exception, and with the exception come no tables.
C14_NoPartialTables ==
    /\ io_pc \in {"saved", "load_rows"} => loaded = NoResult
    /\ io_pc = "raised" =>
          /\ loaded.kind = "error"
          /\ DOMAIN loaded = {"kind", "error"}
          /\ loaded.error \in {"KeyError", "TypeError", "ValueError", "IndexError"}
    /\ io_pc = "loaded" =>
          /\ loaded.kind = "tables"
          /\ \A i \in DataLines(file) : ~Malformed(HeaderOf(file), file[i])
    /\ (io_pc \in {"raised", "loaded"}
          /\ \E i \in DataLines(file) : Malformed(HeaderOf(file), file[i]))
       => io_pc = "raised"

\* A good row was stored in load_csv's tables before a later line failed,
\* and the caller got the exception only.
C14_Witness ==
    /\ io_pc = "raised"
    /\ loaded.kind = "error"
    /\ line_no = 4
    /\ \E s \in Scores, o \in Scores : ld_best_action[s][o] # 0

\* A file of valid rows under the standard header, no pair twice
ValidRow(line) ==
    /\ Len(Split(line)) = 4
    /\ IsIntText(FieldOf(line, 1)) /\ IntOf(FieldOf(line, 1)) \in Scores
    /\ IsIntText(FieldOf(line, 2)) /\ IntOf(FieldOf(line, 2)) \in Scores
    /\ IsIntText(FieldOf(line, 3)) /\ IntOf(FieldOf(line, 3)) \in Actions
    /\ ParseFloat(FieldOf(line, 4)).ok

PairOf(line) == <<IntOf(FieldOf(line, 1)), IntOf(FieldOf(line, 2))>>

ValidUnique(f) ==
    /\ f # <<>>
    /\ f[1] = Join(Header)
    /\ \A i \in 2..Len(f) : ValidRow(f[i])
    /\ \A i, j \in 2..Len(f) : i # j => PairOf(f[i]) # PairOf(f[j])

\* What the rows of such a file say of (s, o): the values of its row, or the
\* defaults when it has none
SaidOf(f, s, o) ==
    IF \E i \in 2..Len(f) : PairOf(f[i]) = <<s, o>>
    THEN LET i == CHOOSE i \in 2..Len(f) : PairOf(f[i]) = <<s, o>>
         IN  [best_roll |-> IntOf(FieldOf(f[i], 3)),
              win_prob |-> ParseFloat(FieldOf(f[i], 4)).val]
    ELSE [best_roll |-> 0, win_prob |-> FZero]

\* C15: rows are accepted in any order: a file of valid rows with no pair
\* twice loads to the tables its rows say, whatever their order, and the
\* pairs without a row keep best_action = 0 and win_prob = 0.0.
C15_AnyRowOrder ==
    (io_pc \in {"loaded", "raised"} /\ ValidUnique(file)) =>
        /\ io_pc = "loaded"
        /\ \A s \in Scores, o \in Scores :
              /\ loaded.best_action[s][o] = SaidOf(file, s, o).best_roll
              /\ loaded.win_prob[s][o] = SaidOf(file, s, o).win_prob

\* A file of four rows was loaded whose first row has a higher score than
\* its last; a pair without a row has the defaults.
C15_Witness ==
    /\ io_pc = "loaded"
    /\ ValidUnique(file)
    /\ Len(file) = 5
    /\ PairOf(file[2])[1] > PairOf(file[5])[1]
    /\ loaded.best_action[PairOf(file[2])[1]][PairOf(file[2])[2]] # 0
    /\ loaded.best_action[0][0] = 0 /\ loaded.win_prob[0][0] = FZero

\* C16: the strategy of make_optimal_strategy returns best_action[score]
\* [opponent_score] for scores in the table, and a call with either
\* argument at or past the side of the table fails instead of answering.
C16_StrategyReadsTable ==
    answer # NoAnswer =>
        /\ answer.asked \in States =>
              /\ answer.err = ""
              /\ answer.val = strat_table[answer.asked[1]][answer.asked[2]]
        /\ (answer.asked[1] >= N \/ answer.asked[2] >= N) =>
              answer.err = "IndexError"

\* The strategy was asked about a state whose action is not 0 and answered.
C16_Witness ==
    /\ answer.asked \in States
    /\ answer.err = ""
    /\ answer.val # 0
    /\ answer.asked[1] # answer.asked[2]

\* How many outcomes the calls of roll_dice before the k-th asked for.
RECURSIVE AskedBefore(_)
AskedBefore(k) == IF k <= 1 THEN 0 ELSE AskedBefore(k - 1) + rolls[k - 1].num_rolls

\* The j-th outcome the dice gives, counted from 1 over all of its calls.
NthOutcome(j) == test_dice[((j - 1) % Len(test_dice)) + 1]

\* C17: roll_dice(num_rolls, dice) with num_rolls >= 1 calls dice exactly
\* num_rolls times, also after a 1; it returns 1 if an outcome is 1 and the
\* sum of the outcomes otherwise; with the dice 3, 1, 5, 6 two calls with
\* num_rolls = 2 return 1 and then 11.
C17_RollDice ==
    /\ \A k \in 1..Len(rolls) :
          rolls[k].num_rolls >= 1 =>
             /\ rolls[k].err = ""
             /\ rolls[k].calls = rolls[k].num_rolls
             /\ Len(rolls[k].outcomes) = rolls[k].num_rolls
             /\ \A j \in 1..rolls[k].num_rolls :
                   rolls[k].outcomes[j] = NthOutcome(AskedBefore(k) + j)
             /\ (\E j \in 1..rolls[k].num_rolls : NthOutcome(AskedBefore(k) + j) = 1)
                   => rolls[k].points = 1
             /\ (\A j \in 1..rolls[k].num_rolls : NthOutcome(AskedBefore(k) + j) # 1)
                   => rolls[k].points = Sum([j \in 1..rolls[k].num_rolls |->
                                                NthOutcome(AskedBefore(k) + j)])
    /\ (/\ test_dice = <<3, 1, 5, 6>>
        /\ Len(rolls) >= 2
        /\ rolls[1].num_rolls = 2
        /\ rolls[2].num_rolls = 2)
          => (rolls[1].points = 1 /\ rolls[2].points = 11)

\* Two calls with num_rolls = 2 on the dice 3, 1, 5, 6 have returned.
C17_Witness ==
    /\ test_dice = <<3, 1, 5, 6>>
    /\ Len(rolls) >= 2
    /\ rolls[1].num_rolls = 2
    /\ rolls[2].num_rolls = 2
    /\ rolls[1].outcomes = <<3, 1>>
    /\ rolls[2].points = 11

\* The outcome values of every distribution stored so far.
StoredPoints ==
    UNION {{DictGet(dice_dist, key, <<>>)[i][1] :
               i \in 1..Len(DictGet(dice_dist, key, <<>>))} : key \in DictKeys(dice_dist)}

\* The pair after the mover at <<s, o>> gains points: sums to more than s + o.
SuccessorAbove(s, o, points) ==
    Swapped(s + points, o)[1] + Swapped(s + points, o)[2] > Level(<<s, o>>)

\* C18: from every state of the table, the successor pair after the gain of
\* the free action, or of any outcome of any distribution, and after the
\* swap has a combined score strictly above the state's own.
C18_SuccessorsAbove ==
    /\ \A s \in Scores, o \in Scores : SuccessorAbove(s, o, BaconPoints(o))
    /\ pc = "alloc" =>
          \A points \in StoredPoints :
             \A s \in Scores, o \in Scores : SuccessorAbove(s, o, points)

\* Every distribution is stored, and both a gain that is followed by a swap
\* and one that is not are among the cases.
C18_Witness ==
    /\ pc = "alloc"
    /\ Cardinality(DictKeys(dice_dist)) = 2 * MaxRolls
    /\ 1 \in StoredPoints
    /\ \E s \in Scores, o \in Scores :
          /\ SwapCond(s + BaconPoints(o), o)
          /\ \E points \in StoredPoints : SwapCond(s + points, o) /\ s + points # o
    /\ \E s \in Scores, o \in Scores : ~SwapCond(s + BaconPoints(o), o)

\* The value of an outcome that leaves the mover at m and the opponent at p.
Resolve(wp, m, p) ==
    IF m >= N THEN FOne
    ELSE IF p >= N THEN FZero
    ELSE FSub(FOne, wp[p][m])

\* The pair of scores after the mover at <<s, o>> gained points and the swap.
After(s, o, points) == Swapped(s + points, o)

\* The outcome values of the distributions solve() uses for a die of sides.
PointsOf(sides) ==
    UNION {{DictGet(dice_dist, <<sides, k>>, <<>>)[i][1] :
               i \in 1..Len(DictGet(dice_dist, <<sides, k>>, <<>>))} : k \in 1..MaxRolls}

\* C19: each outcome of an action is worth 1 if the mover's score after the
\* gain and the swap is at the goal, else 0 if the opponent's is, else
\* 1 - win_prob[opponent][mover]: the free action's value is this, and a dice
\* outcome of probability prob adds prob times this to the action's value
\* (shown with prob = 1.0 added to 0.0, which leaves the value itself).
C19_OutcomeResolution ==
    (pc \in {"sweep", "done"} /\ cur # NoState) =>
        /\ BaconValue(win_prob, cur.s, cur.o)
              = Resolve(win_prob, After(cur.s, cur.o, BaconPoints(cur.o))[1],
                                  After(cur.s, cur.o, BaconPoints(cur.o))[2])
        /\ \A points \in PointsOf(cur.sides) :
              OutcomeAdd(win_prob, cur.s, cur.o, points, FOne, FZero)
                 = Resolve(win_prob, After(cur.s, cur.o, points)[1],
                                     After(cur.s, cur.o, points)[2])

\* The state evaluated last has an outcome of each kind: one that takes the
\* mover to the goal, one whose swap puts the opponent at the goal, and one
\* that is looked up in the table; its free action is looked up after a swap.
C19_Witness ==
    /\ pc = "sweep"
    /\ cur # NoState
    /\ \E k \in 1..MaxRolls :
          \E items \in {DistOf(dice_dist)[<<cur.sides, k>>]} :
             /\ \E i \in 1..Len(items) : After(cur.s, cur.o, items[i][1])[1] >= N
             /\ \E i \in 1..Len(items) :
                   /\ After(cur.s, cur.o, items[i][1])[1] < N
                   /\ After(cur.s, cur.o, items[i][1])[2] >= N
             /\ \E i \in 1..Len(items) :
                   /\ After(cur.s, cur.o, items[i][1])[1] < N
                   /\ After(cur.s, cur.o, items[i][1])[2] < N
    /\ SwapCond(cur.s + BaconPoints(cur.o), cur.o)
    /\ cur.s + BaconPoints(cur.o) < N

\* The pair of scores solve() must go on with after the mover reached m: the
\* two exchanged, once, when one is exactly twice the other.
ExchangedOnce(m, o) ==
    IF m = 2 * o THEN <<o, m>>
    ELSE IF o = 2 * m THEN <<o, m>>
    ELSE <<m, o>>

\* The swap rule for the mover at <<s, o>> gaining points.
SwapRule(s, o, points) ==
    /\ ~(s + points = 2 * o /\ o = 2 * (s + points))
    /\ SwapCond(s + points, o) <=> (s + points = 2 * o \/ o = 2 * (s + points))
    /\ Swapped(s + points, o) = ExchangedOnce(s + points, o)
    /\ ReadOf(s, o, points) =
          IF ExchangedOnce(s + points, o)[1] >= N \/ ExchangedOnce(s + points, o)[2] >= N
          THEN <<>>
          ELSE <<ExchangedOnce(s + points, o)[2], ExchangedOnce(s + points, o)[1]>>

\* C20: after the gain the two scores are exchanged exactly when the mover's
\* new score is twice the opponent's or the opponent's is twice the mover's;
\* the two never hold together; the exchange is made once, and the goal
\* tests and the table lookup are made on the pair after it.
C20_SwapRule ==
    /\ \A s \in Scores, o \in Scores : SwapRule(s, o, BaconPoints(o))
    /\ pc = "alloc" =>
          \A points \in StoredPoints :
             \A s \in Scores, o \in Scores : SwapRule(s, o, points)

\* Every distribution is stored; among the cases are a mover at twice the
\* opponent's score, an opponent at twice the mover's, a swap that hands the
\* opponent a score at the goal, and a swap after the free action.
C20_Witness ==
    /\ pc = "alloc"
    /\ Cardinality(DictKeys(dice_dist)) = 2 * MaxRolls
    /\ \E s \in Scores, o \in Scores :
          \E points \in StoredPoints : s + points = 2 * o /\ o > 0 /\ s + points < N
    /\ \E s \in Scores, o \in Scores :
          \E points \in StoredPoints : o = 2 * (s + points)
    /\ \E s \in Scores, o \in Scores :
          \E points \in StoredPoints : s + points = 2 * o /\ s + points >= N
    /\ \E s \in Scores, o \in Scores : o = 2 * (s + BaconPoints(o))

\* The largest turn score: ten six-sided dice.
MaxGain == 6 * MaxRolls

\* Which branch resolves an outcome when the mover's score is tested first,
\* and when the opponent's is.
BranchMoverFirst(m, p) ==
    IF m >= N THEN "win" ELSE IF p >= N THEN "loss" ELSE "lookup"

BranchOpponentFirst(m, p) ==
    IF p >= N THEN "loss" ELSE IF m >= N THEN "win" ELSE "lookup"

\* In solve(): after any gain from a state of the table and the swap, the
\* two scores are not both at the goal, and either order of the tests takes
\* the same branch.
SolveLeavesOneBelow ==
    \A s \in Scores, o \in Scores :
       \A points \in 1..MaxGain :
          /\ ~(After(s, o, points)[1] >= N /\ After(s, o, points)[2] >= N)
          /\ BranchMoverFirst(After(s, o, points)[1], After(s, o, points)[2])
                = BranchOpponentFirst(After(s, o, points)[1], After(s, o, points)[2])
          /\ (ReadOf(s, o, points) = <<>>)
                <=> (After(s, o, points)[1] >= N \/ After(s, o, points)[2] >= N)

\* C21: a turn from two scores below the goal leaves at most one of them at
\* the goal, in solve() and in play(); so play() returns with exactly one
\* score at the goal and winner() names the player who holds it, the mover
\* of the last turn or, after a swap, the other player.
C21_OneScoreAtGoal ==
    /\ SolveLeavesOneBelow
    /\ ~(score0 >= GOAL_SCORE /\ score1 >= GOAL_SCORE)
    /\ pl_pc = "returned" => (score0 >= GOAL_SCORE \/ score1 >= GOAL_SCORE)
    /\ won # -1 =>
          /\ won = 0 <=> score0 >= GOAL_SCORE
          /\ won = 1 <=> score1 >= GOAL_SCORE

\* winner() named the player who did not make the last move: the swap gave
\* that player the score at the goal.
C21_Witness ==
    /\ pl_pc = "returned"
    /\ won = who
    /\ turns >= 3

\* The larger of the two digits of o, plus one.
LargerDigitPlusOne(o) ==
    IF o % 10 >= o \div 10 THEN (o % 10) + 1 ELSE (o \div 10) + 1

\* The two free gains for every score 0..99, and take_turn(0, o) for every
\* score it accepts.
FreeGainOfEveryScore ==
    /\ \A o \in 0..99 :
          /\ BaconPoints(o) = LargerDigitPlusOne(o)
          /\ BaconPoints(o) \in 1..10
          /\ FreeBacon(o) = BaconPoints(o)
    /\ \A o \in Scores :
          \A sides \in {4, 6} :
             take_turn(0, o, sides) = [err |-> "", scores |-> {BaconPoints(o)}]

\* C22: for every opponent score of the table the free-action gain of
\* solve() is max(o mod 10, o div 10) + 1, lies in 1..10, and is what the
\* simulator's take_turn(0, o) returns, at every turn of a game too.
C22_FreeGain ==
    /\ FreeGainOfEveryScore
    /\ (pl_pc = "loop" /\ LoopWhile(score0, score1, GOAL_SCORE)) =>
          \E theirs \in {IF who = 0 THEN score1 ELSE score0} :
             take_turn(0, theirs, select_dice(score0, score1)).scores
                = {BaconPoints(theirs)}

\* A game of simple_strategy against itself: Player 0 has taken the free
\* action at 0 : 0 and Player 1 is to move.
C22_Witness ==
    /\ strategies = <<"simple_strategy", "simple_strategy">>
    /\ turns = 1
    /\ score0 = BaconPoints(0)
    /\ who = 1

\* Of the tuples of faces 1..d, with contain a 1 and without do not; one
\* face more, k times over.
RECURSIVE TuplesByOne(_, _, _, _)
TuplesByOne(k, d, with, without) ==
    IF with < 0 \/ without < 0 \/ k = 0 THEN <<with, without>>
    ELSE TuplesByOne(k - 1, d, with * d + without, without * (d - 1))

\* The number of k-tuples of faces 1..d with at least one 1.
TuplesWithOne(k, d) == TuplesByOne(k, d, 0, 1)[1]

\* The distribution stored under key has the entry for outcome 1, first in
\* the dict, with the count of the tuples that contain a 1 over d^k.
HasBustEntry(key) ==
    /\ DictHas(dice_dist, key)
    /\ TuplesWithOne(key[2], key[1]) = key[1] ^ key[2] - (key[1] - 1) ^ key[2]
    /\ TuplesWithOne(key[2], key[1]) > 0
    /\ DictGet(way_counts, key, <<>>).bust = TuplesWithOne(key[2], key[1])
    /\ DictHas(DictGet(dice_dist, key, <<>>), 1)
    /\ DictGet(dice_dist, key, <<>>)[1]
          = <<1, FDivInt(TuplesWithOne(key[2], key[1]), key[1] ^ key[2])>>
    /\ FLess(FZero, DictGet(dice_dist, key, <<>>)[1][2])

\* C23: every distribution has the entry for outcome 1, whose count is
\* d^k - (d-1)^k, the number of k-tuples of faces 1..d with a 1 in them; the
\* count is positive, so the entry is never left out; the mapping returned
\* has exactly the 20 keys {4,6} x {1..10}, and every lookup of solve()
\* finds its distribution.
C23_BustEntry ==
    /\ pc # "error"
    /\ (pc = "key" /\ Len(dice_dist) > 0) => HasBustEntry(dice_dist[Len(dice_dist)][1])
    /\ pc = "alloc" =>
          /\ Len(dice_dist) = 20
          /\ DictKeys(dice_dist) = AllKeys
          /\ \A key \in AllKeys : HasBustEntry(key)
          /\ \A s \in Scores, o \in Scores :
                \A k \in 1..MaxRolls : DictHas(dice_dist, <<NumSides(s, o), k>>)

\* All the distributions are stored; the entry for outcome 1 of ten
\* six-sided dice counts 6^10 - 5^10 tuples.
C23_Witness ==
    /\ pc = "alloc"
    /\ DictGet(way_counts, <<6, 10>>, <<>>).bust = 50700551
    /\ DictGet(DictGet(dice_dist, <<6, 10>>, <<>>), 1, FZero)
          = FDivInt(50700551, 6 ^ 10)

\* One face 2..d more: the number of tuples of each sum, from the numbers
\* for tuples one shorter.  (counts[t + 1] is the number for the sum t.)
OneFaceMore(counts, d) ==
    [u \in 1..Len(counts) |->
        SumFrom([i \in 1..(d - 1) |-> IF u - (i + 1) >= 1 THEN counts[u - (i + 1)] ELSE 0],
                1, 0)]

RECURSIVE TupleCountsFrom(_, _, _)
TupleCountsFrom(k, d, counts) ==
    IF Len(counts) < 0 \/ k = 0 THEN counts
    ELSE TupleCountsFrom(k - 1, d, OneFaceMore(counts, d))

\* TupleCounts(k, d)[t + 1]: how many k-tuples over the faces 2..d have sum t.
TupleCounts(k, d) ==
    TupleCountsFrom(k, d, [u \in 1..(MaxGain + 1) |-> IF u = 1 THEN 1 ELSE 0])

\* The dict holds, for the tuples of k faces 2..d, exactly the sums 2k..dk,
\* each with the number of tuples of that sum, (d-1)^k tuples in all.
CountsTuples(dict, k, d) ==
    \E counts \in {TupleCounts(k, d)} :
       /\ DictKeys(dict) = (2 * k)..(d * k)
       /\ Len(dict) = d * k - 2 * k + 1
       /\ Len(counts) = MaxGain + 1
       /\ \A i \in 1..Len(dict) : dict[i][2] = counts[dict[i][1] + 1]
       /\ k >= 1 => CountSum(dict, 1) = (d - 1) ^ k

\* The distribution stored under key: the bust entry at outcome 1 is still
\* the first, and after it come the sums with their counts over d^k.
WaysInserted(key) ==
    \E cnt \in {DictGet(way_counts, key, <<>>)}, out \in {DictGet(dice_dist, key, <<>>)} :
       /\ CountsTuples(cnt.ways, key[2], key[1])
       /\ \A i \in 1..Len(cnt.ways) : cnt.ways[i][1] >= 2
       /\ Len(out) = Len(cnt.ways) + 1
       /\ out[1] = <<1, FDivInt(cnt.bust, key[1] ^ key[2])>>
       /\ \A i \in 1..Len(cnt.ways) :
             out[i + 1] = <<cnt.ways[i][1], FDivInt(cnt.ways[i][2], key[1] ^ key[2])>>

\* C24: after each convolution step the count of a sum is the number of
\* tuples over the faces 2..d with that sum; after the k-th the outcomes are
\* exactly 2k..dk and their counts total (d-1)^k; every sum is at least 2,
\* so storing them leaves the entry of outcome 1 as it was.
C24_WaysCountTuples ==
    /\ pc = "conv" => CountsTuples(ways, dice, Sides[sides_i])
    /\ (pc = "key" /\ Len(dice_dist) > 0) => WaysInserted(dice_dist[Len(dice_dist)][1])
    /\ pc = "alloc" => \A key \in AllKeys : WaysInserted(key)

\* The ten convolution steps for six-sided dice are done: 10 has one tuple,
\* 35 the most, and the distributions are stored.
C24_Witness ==
    /\ pc = "alloc"
    /\ \E w \in {DictGet(way_counts, <<6, 10>>, <<>>).ways} :
          /\ DictGet(w, 20, 0) = 1
          /\ DictGet(w, 60, 0) = 1
          /\ DictGet(w, 40, 0) = 856945
          /\ Len(w) = 41

RECURSIVE ConvolveTimes(_, _, _)
ConvolveTimes(w, k, d) ==
    IF Len(w) < 0 \/ k = 0 THEN w ELSE ConvolveTimes(Convolve(w, d), k - 1, d)

\* The outcome values of the distribution _precompute_dice_distributions
\* builds for the key <<d, k>>.
SolveOutcomes ==
    Computed([key \in AllKeys |->
                 DictKeys(PigOutcomes(key[1], key[2]))
                    \cup DictKeys(ConvolveTimes(<<<<0, 1>>>>, key[2], key[1]))])

\* For every state of the table and every num_rolls, the turn scores
\* take_turn can return are the gains solve() goes through.
SameTurnScores ==
    \A s \in Scores, o \in Scores :
       /\ select_dice(s, o) = NumSides(s, o)
       /\ take_turn(0, o, select_dice(s, o)).scores = {BaconPoints(o)}
       /\ \A k \in 1..MaxRolls :
             take_turn(k, o, select_dice(s, o)).scores
                = SolveOutcomes[<<NumSides(s, o), k>>]

\* One turn of play(), seen from the mover at s against o, is a transition
\* of solve(): the new pair is the pair solve() goes on with for the gain,
\* the next mover is the opponent, whose score is the row of the lookup, and
\* the loop of play() is left exactly when solve() looks nothing up.
TurnIsSolveTransition ==
    (pl_pc = "loop" /\ turns' = turns + 1 /\ pl_pc' = "loop") =>
       \E s \in {IF who = 0 THEN score0 ELSE score1},
          o \in {IF who = 0 THEN score1 ELSE score0},
          points \in {(score0' + score1') - (score0 + score1)},
          next_mover \in {IF who' = 0 THEN score0' ELSE score1'},
          next_opp \in {IF who' = 0 THEN score1' ELSE score0'} :
             /\ who' = other(who)
             /\ <<s, o>> \in States
             /\ points = BaconPoints(o)
                   \/ \E k \in 1..MaxRolls : points \in SolveOutcomes[<<NumSides(s, o), k>>]
             /\ After(s, o, points) = <<next_opp, next_mover>>
             /\ ReadOf(s, o, points) =
                   IF LoopWhile(score0', score1', GOAL_SCORE)
                   THEN <<next_mover, next_opp>> ELSE <<>>

\* C25: the turn scores of the simulator are the gains of solve(), state by
\* state and roll count by roll count, and every turn of play() moves to the
\* successor pair solve() uses for that gain, with the roles exchanged;
\* play() stops exactly when solve() resolves the outcome without a lookup.
C25_PlayMatchesSolve == [][SameTurnScores /\ TurnIsSolveTransition]_vars

\* Two turns were played and the second ended in a swap: 2 : 1 after two
\* turns can only come from 1 : 2.
C25_Witness ==
    /\ pl_pc = "loop"
    /\ turns = 2
    /\ score0 = 2
    /\ score1 = 1

\* A turn of play(): the sum of the scores grows by at least 1 and the
\* other player is to move.
TurnRaisesSum ==
    (pl_pc = "loop" /\ turns' = turns + 1) =>
       /\ pl_pc' = "loop"
       /\ score0' + score1' >= score0 + score1 + 1
       /\ who' = 1 - who
       /\ who = turns % 2

\* The turns played are bounded by the sum of the scores, and a turn is
\* only played from two scores below the goal.
TurnsBounded ==
    /\ pl_pc # "error"
    /\ turns <= score0 + score1
    /\ turns <= 2 * GOAL_SCORE - 1
    /\ pl_pc = "returned" =>
          /\ score0 >= GOAL_SCORE \/ score1 >= GOAL_SCORE
          /\ turns >= 1

\* C26: play() terminates: every turn raises the sum of the two scores by at
\* least 1 (the swap keeps the sum), the players alternate, no more than
\* 2 * goal - 1 turns are played, and the loop is left, with a score at the
\* goal, in every game.
C26_PlayTerminates ==
    /\ []TurnsBounded
    /\ [][TurnRaisesSum]_vars
    /\ <>(pl_pc = "returned")

\* A long game has ended: it took at least 2 * goal - 4 turns, one point a
\* turn for most of them.
C26_Witness ==
    /\ pl_pc = "returned"
    /\ turns >= 2 * GOAL_SCORE - 4

\* C27: in a game of play() with strategies returning 0..10 no assertion
\* of take_turn or roll_dice fails: whenever a turn is taken the opponent's
\* score is below the goal, num_rolls is in 0..10, and roll_dice is reached
\* only with num_rolls >= 1.
C27_NoAssertionFails ==
    /\ pl_pc # "error"
    /\ pl_err = ""
    /\ (pl_pc = "loop" /\ LoopWhile(score0, score1, GOAL_SCORE)) =>
          \E mine \in {IF who = 0 THEN score0 ELSE score1},
             theirs \in {IF who = 0 THEN score1 ELSE score0} :
             /\ theirs < GOAL_SCORE
             /\ \A n \in StrategyRolls(strategies[who + 1], mine, theirs) :
                   /\ n >= 0
                   /\ n <= 10
                   /\ take_turn(n, theirs, select_dice(score0, score1)).err = ""
                   /\ n # 0 => /\ n >= 1
                               /\ roll_dice(n, select_dice(score0, score1)).err = ""

\* simple_strategy is to move against an opponent one point below the goal.
C27_Witness ==
    /\ pl_pc = "loop"
    /\ turns >= 2
    /\ strategies[who + 1] = "simple_strategy"
    /\ (IF who = 0 THEN score1 ELSE score0) = GOAL_SCORE - 1
    /\ (IF who = 0 THEN score0 ELSE score1) < GOAL_SCORE

\* C28: simple_strategy determines the die type of the turn: it returns
\* d4_best (0) exactly when score + opponent_score is a multiple of 7, that
\* is when select_dice picks four-sided dice, and a d6_best in 3..9 otherwise.
C28_SimpleStrategyDieType ==
    (/\ pl_pc = "loop"
     /\ LoopWhile(score0, score1, GOAL_SCORE)
     /\ strategies[who + 1] = "simple_strategy") =>
       \E mine \in {IF who = 0 THEN score0 ELSE score1},
          theirs \in {IF who = 0 THEN score1 ELSE score0} :
          \E n \in {simple_strategy(mine, theirs)} :
             /\ n = 0 <=> (mine + theirs) % 7 = 0
             /\ n = 0 <=> select_dice(mine, theirs) = 4
             /\ n # 0 => n \in 3..9

\* C8: the states of a level do not depend on one another: an evaluation at
\* level L reads only entries of levels above L, so the level-parallel
\* schedule, in any order and interleaving, leaves the tables of the
\* sequential sweep.
C8_LevelsIndependent ==
    /\ \A r \in pending : \A x \in r.reads : Level(x) > r.s + r.o
    /\ pc = "done" =>
          <<win_prob, best_action>> =
              SeqSweepFrom(ZeroTables, DistOf(dice_dist), 2 * N - 2, ParFloor)

\* Two evaluations of one level are in flight, one of them made from
\* looked-up entries, while another state of the level is already stored.
C8_Witness ==
    /\ pc = "sweep"
    /\ \E r1 \in pending, r2 \in pending :
          /\ r1 # r2
          /\ r1.reads # {}
    /\ \E p \in LevelStates(total) : writes[p] = 1
====
